---- MODULE Spec2Model ----
(***************************************************************************)
(* TribeLife backend: the scheduled beacon matcher (jobs/beaconMatcher.ts), *)
(* the beacon routes (routes/beacons.ts), onboarding (routes/auth.ts) and   *)
(* the notification side of the socket handlers (index.ts).                 *)
(*                                                                          *)
(* Time is counted in ticks of 12 hours.  Every action is one database or   *)
(* external call of a handler together with the synchronous code that runs  *)
(* after it up to the next await.                                           *)
(***************************************************************************)
EXTENDS Integers, Sequences, FiniteSets, TLC

\* ------------------------------------------------------------------ bounds
NumUsers == 3
MaxBeacons == 3
MaxRuns == 2
MaxTicks == 1
MaxRequests == 1
MaxSockets == 2
MaxTasks == 2
MaxMessages == 1
MaxTyping == 1
MaxConversations == 2
MaxPosts == 2

\* ------------------------------------------------------- program constants
\* INTERVAL '24 hours' of the existing-match query, in ticks
WindowTicks == 2
\* expiresAt.setDate(getDate() + 30), in ticks
ExpiryTicks == 60
FREE_BEACON_LIMIT == 1
PREMIUM_BEACON_LIMIT == 3

Users == 1..NumUsers
Runs == 1..MaxRuns
SocketIds == 1..MaxSockets
TaskIds == 1..MaxTasks
PostIds == 1..MaxPosts
\* the conversation ids a client may name in an event (a row need not exist)
ConversationIds == 1..MaxConversations
NULL == "null"
\* a timestamp column that is NULL
NoTime == 0 - 1
Timezones == {"UTC", "America/New_York"}
Handles == {"alice", "bob", "carol"}
\* String.prototype.toLowerCase on the handles of the model
toLowerCase(h) ==
  IF h = "Bob" THEN "bob"
  ELSE IF h = "Alice" THEN "alice"
  ELSE IF h = "Carol" THEN "carol"
  ELSE h
NoProfile == [handle |-> NULL, timezone |-> NULL, isPremium |-> FALSE, exists |-> FALSE]
\* users: every id of Users has a row, NoSuchUser is an id that has none
NoSuchUser == NumUsers + 1

VARIABLES
  now,            \* the database clock NOW(), in ticks
  ticks,          \* how often the clock has advanced
  requests,       \* how many REST requests have been served
  userProfiles,   \* user_profiles: userId -> row (exists = FALSE: no row)
  beacons,        \* beacons: sequence of rows, the index is the serial id
  beaconMatches,  \* beacon_matches: set of rows, unique on (beaconId, matchedBeaconId)
  notifications,  \* notifications: sequence of rows, the index is the serial id
  runs,           \* one record per invocation of runBeaconMatching
  opSeq,          \* number of INSERT statements executed on beacon_matches
  sockets,        \* socket id -> the connection's data and rooms (open = FALSE: none)
  emitted,        \* the events emitted to rooms, each with the sockets that received it
  messages,       \* messages: sequence of rows, the index is the serial id
  conversations,  \* conversations: sequence of rows, the index is the serial id
  conversationParticipants,  \* conversation_participants: set of rows
  tasks,          \* the socket event handlers in flight
  posts,          \* the handlers of POST /conversations and POST /beacons in flight
  reply,          \* the response of the last DELETE /beacons/:id
  transport       \* whether the push service answers ("up") or the fetch fails ("down")

chatVars == <<sockets, emitted, messages, conversations, conversationParticipants, tasks>>
restVars == <<posts, reply, transport>>
vars == <<now, ticks, requests, userProfiles, beacons, beaconMatches, notifications, runs,
          opSeq, chatVars, restVars>>

\* --------------------------------------------------------------- comparator
\* MatchResult as parsed from the model's JSON answer: score (in 1/10000),
\* reason and isMatch are three independent fields of the answer.
CompareResults ==
  { [score |-> 8000, reason |-> "strong", isMatch |-> TRUE],
    [score |-> 2000, reason |-> "weak", isMatch |-> FALSE] }
Throws == [score |-> 0, reason |-> "throw", isMatch |-> FALSE]

\* "isMatch = true if score >= 0.65" is an instruction of the prompt
Threshold == 6500
\* return JSON.parse(raw) as MatchResult: the answer is taken as the model
\* wrote it, so score and isMatch need not agree; catch { return { score: 0,
\* reason: 'Unable to compare', isMatch: false } } for an answer that is no JSON
ModelAnswers ==
  CompareResults \cup
  { [score |-> 6500, reason |-> "threshold", isMatch |-> TRUE],
    [score |-> 6496, reason |-> "nearly", isMatch |-> FALSE],
    [score |-> 3000, reason |-> "stretch", isMatch |-> TRUE],
    [score |-> 0, reason |-> "Unable to compare", isMatch |-> FALSE] }

\* Number.prototype.toFixed(3): a score in 1/10000 rounded to 1/1000
toFixed3(score) == (score + 5) \div 10

\* ------------------------------------------------------------ beacon store
BeaconIds == 1..Len(beacons)

\* WHERE isActive AND isSanitized AND (expiresAt IS NULL OR expiresAt > NOW())
QualifyingMutNoActive(b, t) ==
  /\ b.isSanitized
  /\ (b.expiresAt = NoTime \/ b.expiresAt > t)
Qualifying(b, t) ==
  /\ b.isActive
  /\ b.isSanitized
  /\ (b.expiresAt = NoTime \/ b.expiresAt > t)

\* the rows the load of a run returns, in id order
RECURSIVE LoadFrom(_, _, _)
LoadFrom(bs, t, i) ==
  IF i > Len(bs) THEN <<>>
  ELSE IF Qualifying(bs[i], t)
       THEN <<[id |-> i, userId |-> bs[i].userId, timezone |-> bs[i].timezone]>>
            \o LoadFrom(bs, t, i + 1)
       ELSE LoadFrom(bs, t, i + 1)
activeBeaconsOf(bs, t) == LoadFrom(bs, t, 1)

\* const tz = beacon.timezone ?? 'UTC'
tzKeyMutUnknown(tz) == IF tz = NULL THEN "unknown" ELSE tz
tzKey(tz) == IF tz = NULL THEN "UTC" ELSE tz

\* keys of byTimezone in Map insertion order
RECURSIVE KeysFrom(_, _, _)
KeysFrom(s, i, seen) ==
  IF i > Len(s) THEN <<>>
  ELSE IF tzKey(s[i].timezone) \in seen THEN KeysFrom(s, i + 1, seen)
       ELSE <<tzKey(s[i].timezone)>>
            \o KeysFrom(s, i + 1, seen \cup {tzKey(s[i].timezone)})
bucketKeys(active) == KeysFrom(active, 1, {})
bucketMutOneBucket(active, key) == active
bucket(active, key) == SelectSeq(active, LAMBDA b : tzKey(b.timezone) = key)

\* for (i = 0 ..) for (j = i + 1 ..): the pairs of one bucket in loop order
RECURSIVE PairsFrom(_, _, _, _)
PairsFrom(s, key, i, j) ==
  IF i > Len(s) THEN <<>>
  ELSE IF j > Len(s) THEN PairsFrom(s, key, i + 1, i + 2)
       ELSE <<[a |-> s[i], b |-> s[j], timezone |-> key]>> \o PairsFrom(s, key, i, j + 1)
pairsOfBucketMutSkipNeighbour(s, key) == PairsFrom(s, key, 1, 3)
pairsOfBucket(s, key) == PairsFrom(s, key, 1, 2)

\* byTimezone: one entry per key, in insertion order, with the beacons of the key
groupByTimezone(active) ==
  [n \in 1..Len(bucketKeys(active)) |->
     [timezone |-> bucketKeys(active)[n],
      tzBeacons |-> bucket(active, bucketKeys(active)[n])]]

\* for (const [timezone, tzBeacons] of byTimezone): all pairs of the run in order
RECURSIVE PairsOfGroups(_, _)
PairsOfGroups(groups, n) ==
  IF n > Len(groups) THEN <<>>
  ELSE pairsOfBucket(groups[n].tzBeacons, groups[n].timezone) \o PairsOfGroups(groups, n + 1)
allPairs(groups) == PairsOfGroups(groups, 1)

\* if (a.userId === b.userId) continue
sameUserMutNever(p) == FALSE
sameUser(p) == p.a.userId = p.b.userId

\* index of the next pair after k that is not skipped synchronously
RECURSIVE nextPair(_, _)
nextPair(todo, k) ==
  IF k > Len(todo) THEN k
  ELSE IF sameUser(todo[k]) THEN nextPair(todo, k + 1) ELSE k

\* ------------------------------------------------------------- match store
\* createdAt > NOW() - INTERVAL '24 hours'
Fresh(e, t) == e.createdAt > t - WindowTicks

\* the existing-match query: an edge in either direction inside the window
existingMatchMutOlder(p, t) ==
  \E e \in beaconMatches :
    /\ \/ e.beaconId = p.a.id /\ e.matchedBeaconId = p.b.id
       \/ e.beaconId = p.b.id /\ e.matchedBeaconId = p.a.id
    /\ e.createdAt < t - WindowTicks
existingMatch(p, t) ==
  \E e \in beaconMatches :
    /\ \/ e.beaconId = p.a.id /\ e.matchedBeaconId = p.b.id
       \/ e.beaconId = p.b.id /\ e.matchedBeaconId = p.a.id
    /\ Fresh(e, t)

\* the two rows of db.insert(beaconMatches).values([...]); op, run and live
\* are not columns: the number of the INSERT statement, the run that issued it
\* and whether both beacons were active in the table at that time
matchValuesMutForwardOnly(p, result, r) ==
  { [beaconId |-> p.a.id, matchedBeaconId |-> p.b.id,
     similarityScore |-> toFixed3(result.score), matchReason |-> result.reason,
     createdAt |-> now, op |-> opSeq + 1, run |-> r,
     live |-> beacons[p.a.id].isActive /\ beacons[p.b.id].isActive] }
matchValues(p, result, r) ==
  { [beaconId |-> p.a.id, matchedBeaconId |-> p.b.id,
     similarityScore |-> toFixed3(result.score), matchReason |-> result.reason,
     createdAt |-> now, op |-> opSeq + 1, run |-> r,
     live |-> beacons[p.a.id].isActive /\ beacons[p.b.id].isActive],
    [beaconId |-> p.b.id, matchedBeaconId |-> p.a.id,
     similarityScore |-> toFixed3(result.score), matchReason |-> result.reason,
     createdAt |-> now, op |-> opSeq + 1, run |-> r,
     live |-> beacons[p.a.id].isActive /\ beacons[p.b.id].isActive] }

\* .onConflictDoNothing() against unique(beaconId, matchedBeaconId)
onConflictMutInsertAll(rows) == rows
onConflictDoNothing(rows) ==
  { v \in rows : ~ \E e \in beaconMatches :
       e.beaconId = v.beaconId /\ e.matchedBeaconId = v.matchedBeaconId }

\* ---------------------------------------------------------------- sockets
\* room names: `timezone:${timezone}`, `user:${userId}`, `conversation:${id}`
timezoneRoom(tz) == [kind |-> "timezone", name |-> tz, id |-> 0]
userRoom(u) == [kind |-> "user", name |-> NULL, id |-> u]
conversationRoom(c) == [kind |-> "conversation", name |-> NULL, id |-> c]

\* last records the last dm:join or dm:leave of the socket with the rooms it
\* was in before the event
NoRoom == [kind |-> NULL, name |-> NULL, id |-> 0]
NoEvent == [event |-> NULL, room |-> NoRoom, before |-> {}]
ClosedSocket == [open |-> FALSE, userId |-> 0, timezone |-> NULL, handle |-> NULL,
                 rooms |-> {}, last |-> NoEvent]

\* the sockets that are in a room
inRoomMutEveryone(room) == {c \in SocketIds : sockets[c].open}
inRoom(room) == {c \in SocketIds : sockets[c].open /\ room \in sockets[c].rooms}

\* the recipient has at least one active connection
Online(u) == \E c \in SocketIds : sockets[c].open /\ sockets[c].userId = u

\* a row of notifications; the columns of data that a type does not use are
\* 0 or NULL.  run (the invocation of the matcher that wrote the row), online
\* (the recipient had an open connection when the row was written), cause (the
\* id of the message the row is about) and senderId (the sender of that
\* message) are not columns: they record the circumstances of the insert.
Notification(u, type, body) ==
  [userId |-> u, type |-> type, body |-> body, online |-> Online(u),
   beaconId |-> 0, matchedBeaconId |-> 0, timezone |-> NULL, run |-> 0,
   messageId |-> 0, conversationId |-> 0, senderHandle |-> NULL,
   cause |-> 0, senderId |-> 0, push |-> "none"]

\* the two rows of db.insert(notifications).values([...]) of the match job
matchNotifications(p, result, r) ==
  << [Notification(p.a.userId, "beacon_match", result.reason) EXCEPT
        !.beaconId = p.a.id, !.matchedBeaconId = p.b.id,
        !.timezone = p.timezone, !.run = r],
     [Notification(p.b.userId, "beacon_match", result.reason) EXCEPT
        !.beaconId = p.b.id, !.matchedBeaconId = p.a.id,
        !.timezone = p.timezone, !.run = r] >>

\* ------------------------------------------------------------------- push
\* sendPushNotifications: the fetch and the parse of its answer are inside
\* try/catch; a failure is logged and the function resolves with no tickets
sendPushNotificationsMutThrows(service) ==
  [sent |-> service = "up", throws |-> service = "down"]
sendPushNotifications(service) == [sent |-> service = "up", throws |-> FALSE]

\* sendPushToUser: if (!expoPushToken) return.  A user without a profile row
\* has no token; every profile row is taken to hold one.
sendPushToUser(u) ==
  IF ~userProfiles[u].exists THEN [sent |-> FALSE, throws |-> FALSE]
  ELSE sendPushNotifications(transport)

\* what became of the submission for user u: none was made, it was sent, or
\* it failed
pushOutcome(u) ==
  IF ~userProfiles[u].exists THEN "none"
  ELSE IF sendPushToUser(u).sent THEN "sent" ELSE "failed"

\* ------------------------------------------------------------------- runs
\* pc: idle, check, compare, insert, notify, push, update, done, failed.
\* t0, store, after, answers and added record what the run saw and did: the
\* clock and the beacons table at the load, the runs that had finished by
\* then, the comparator's answers and the number of rows it inserted.
IdleRun ==
  [pc |-> "idle", active |-> <<>>, byTimezone |-> <<>>, todo |-> <<>>, k |-> 1, result |-> Throws,
   totalComparisons |-> 0, totalMatches |-> 0,
   t0 |-> NoTime, store |-> <<>>, after |-> {}, answers |-> <<>>, added |-> 0]

\* position of the run after the pair at k - 1 is finished
Continue(run, k) ==
  LET k2 == nextPair(run.todo, k)
  IN [run EXCEPT !.k = k2, !.pc = IF k2 > Len(run.todo) THEN "done" ELSE "check"]

\* catch (err) { console.error(...); continue; }
onCompareErrorMutAbort(run) == [run EXCEPT !.pc = "failed"]
onCompareError(run) == Continue(run, run.k + 1)

\* ------------------------------------------------------------------ clock
\* time passes: 12 hours or 24 hours
Tick ==
  /\ ticks < MaxTicks
  /\ \E d \in {1, WindowTicks} : now' = now + d
  /\ ticks' = ticks + 1
  /\ UNCHANGED <<requests, userProfiles, beacons, beaconMatches, notifications, runs,
                 opSeq, chatVars, restVars>>

\* ------------------------------------------------------------ routes/auth
\* POST /onboarding: 409 when the handle is taken, else upsert handle and timezone
Onboarding(u, handle, timezone) ==
  /\ requests < MaxRequests
  /\ requests' = requests + 1
  /\ IF \E v \in Users : /\ userProfiles[v].exists
                          /\ userProfiles[v].handle = toLowerCase(handle)
     THEN UNCHANGED userProfiles
     ELSE userProfiles' = [userProfiles EXCEPT ![u] =
            [handle |-> toLowerCase(handle), timezone |-> timezone,
             isPremium |-> userProfiles[u].isPremium, exists |-> TRUE]]
  /\ UNCHANGED <<now, ticks, beacons, beaconMatches, notifications, runs, opSeq,
                 chatVars, restVars>>

\* --------------------------------------------------------- routes/beacons
\* a REST handler in flight or, when pc is "done", its response.  pc: idle,
\* profile, analyze, insert (POST /beacons), insert, participants
\* (POST /conversations), done, failed (the handler rejected: no response)
IdlePost ==
  [pc |-> "idle", route |-> NULL, userId |-> 0, otherUserId |-> 0, timezone |-> NULL,
   convo |-> 0, status |-> 0, conversationId |-> 0, isNew |-> FALSE, beaconId |-> 0,
   profileAtInsert |-> NULL, response |-> NULL]
\* no DELETE /beacons/:id has been answered yet; owner records whether the
\* user of the request owned the beacon it named
NoReply == [status |-> 0, owner |-> FALSE]

\* res.status(code).json(...): the handler returns
respond(post, code) == [post EXCEPT !.pc = "done", !.status = code]

activeCount(u) == Cardinality({i \in BeaconIds : beacons[i].userId = u /\ beacons[i].isActive})
beaconLimit(u) == IF userProfiles[u].isPremium THEN PREMIUM_BEACON_LIMIT ELSE FREE_BEACON_LIMIT

\* POST /: the count of the user's active beacons against the limit, 403 when
\* the limit is reached
BeaconCount(q, u) ==
  /\ posts[q].pc = "idle"
  /\ Len(beacons) < MaxBeacons
  /\ posts' = [posts EXCEPT ![q] =
        IF activeCount(u) >= beaconLimit(u)
        THEN respond([IdlePost EXCEPT !.route = "POST /beacons", !.userId = u], 403)
        ELSE [IdlePost EXCEPT !.route = "POST /beacons", !.userId = u, !.pc = "profile"]]
  /\ UNCHANGED <<now, ticks, requests, userProfiles, beacons, beaconMatches, notifications,
                 runs, opSeq, chatVars, reply, transport>>

\* const timezone = profile[0]?.timezone ?? null
timezoneOfMutUtc(u) == "UTC"
timezoneOf(u) == userProfiles[u].timezone

\* POST /: the read of the user's profile timezone
BeaconProfile(q) ==
  /\ posts[q].pc = "profile"
  /\ posts' = [posts EXCEPT ![q].timezone = timezoneOf(posts[q].userId),
                            ![q].pc = "analyze"]
  /\ UNCHANGED <<now, ticks, requests, userProfiles, beacons, beaconMatches, notifications,
                 runs, opSeq, chatVars, reply, transport>>

\* what analyzeBeacon gives the handler: an analysis with isAppropriate true
\* or false, or an exception
Analyses == {"appropriate", "inappropriate", "throws"}

\* what the completion call does: it fails, or it answers with JSON that says
\* isAppropriate true or false, or with text that is no JSON
Responses == {"appropriate", "inappropriate", "unparsable", "fails"}

\* analyzeBeacon: the call is not in a try block; try { return JSON.parse(raw) }
\* catch { return { isAppropriate: false, ... } }
analyzeBeaconMutTrusting(response) ==
  IF response = "fails" THEN "throws"
  ELSE IF response = "inappropriate" THEN "inappropriate" ELSE "appropriate"
analyzeBeacon(response) ==
  IF response = "fails" THEN "throws"
  ELSE IF response = "appropriate" THEN "appropriate" ELSE "inappropriate"

\* POST /: analyzeBeacon, 503 when it throws, 422 when the text is not
\* appropriate; response records what the completion call did
BeaconAnalyze(q, response) ==
  /\ posts[q].pc = "analyze"
  /\ LET analysis == analyzeBeacon(response)
         post == [posts[q] EXCEPT !.response = response]
     IN posts' = [posts EXCEPT ![q] =
          IF analysis = "throws" THEN respond(post, 503)
          ELSE IF analysis = "inappropriate" THEN respond(post, 422)
          ELSE [post EXCEPT !.pc = "insert"]]
  /\ UNCHANGED <<now, ticks, requests, userProfiles, beacons, beaconMatches, notifications,
                 runs, opSeq, chatVars, reply, transport>>

\* POST /: INSERT INTO beacons ... RETURNING, 201.  profileAtInsert records the
\* profile timezone of the owner at the time of the insert.
BeaconInsert(q) ==
  /\ posts[q].pc = "insert" /\ posts[q].route = "POST /beacons"
  /\ beacons' = Append(beacons,
        [userId |-> posts[q].userId, timezone |-> posts[q].timezone, isActive |-> TRUE,
         isSanitized |-> TRUE, expiresAt |-> now + ExpiryTicks, lastMatchedAt |-> NoTime])
  /\ posts' = [posts EXCEPT ![q] =
        respond([posts[q] EXCEPT !.beaconId = Len(beacons) + 1,
                   !.profileAtInsert = userProfiles[posts[q].userId].timezone], 201)]
  /\ UNCHANGED <<now, ticks, requests, userProfiles, beaconMatches, notifications,
                 runs, opSeq, chatVars, reply, transport>>

\* UPDATE beacons SET isActive = false WHERE id = :id AND userId = :user
deactivatedMutAnyOwner(u, id) == {i \in BeaconIds : i = id}
deactivated(u, id) == {i \in BeaconIds : i = id /\ beacons[i].userId = u}

\* DELETE /:id: the update, 404 when it returned no row
DeactivateBeacon(u, id) ==
  /\ requests < MaxRequests
  /\ requests' = requests + 1
  /\ beacons' = [i \in BeaconIds |->
        IF i \in deactivated(u, id) THEN [beacons[i] EXCEPT !.isActive = FALSE]
        ELSE beacons[i]]
  /\ reply' = [status |-> IF deactivated(u, id) = {} THEN 404 ELSE 200,
               owner |-> (id \in BeaconIds /\ beacons[id].userId = u)]
  /\ UNCHANGED <<now, ticks, userProfiles, beaconMatches, notifications, runs, opSeq,
                 chatVars, posts, transport>>

\* ------------------------------------------------------------ routes/chat
\* the participant rows of a conversation
participantsOf(c) == {cp \in conversationParticipants : cp.conversationId = c}

\* SELECT c.id FROM conversations c WHERE (SELECT COUNT(*) ...) = 2 AND EXISTS
\* (... user_id = :userId) AND EXISTS (... user_id = :otherUserId)
existingConversations(userId, otherUserId) ==
  {c \in DOMAIN conversations :
     /\ Cardinality(participantsOf(c)) = 2
     /\ \E cp \in participantsOf(c) : cp.userId = userId
     /\ \E cp \in participantsOf(c) : cp.userId = otherUserId}

\* the ids a client may send as otherUserId: the users, an id that is in no
\* row of users, and 0 for a body that fails the schema
OtherUserIds == Users \cup {NoSuchUser, 0}

\* POST /conversations: the schema, the check against oneself and the query
\* for an existing conversation (LIMIT 1 without an order: any of the rows)
ConversationExisting(q, u, otherUserId) ==
  /\ posts[q].pc = "idle"
  /\ LET post == [IdlePost EXCEPT !.route = "POST /conversations", !.userId = u,
                                  !.otherUserId = otherUserId]
     IN IF otherUserId <= 0 \/ u = otherUserId
        THEN posts' = [posts EXCEPT ![q] = respond(post, 400)]
        ELSE IF existingConversations(u, otherUserId) # {}
             THEN \E c \in existingConversations(u, otherUserId) :
                    posts' = [posts EXCEPT ![q] =
                      respond([post EXCEPT !.conversationId = c, !.isNew = FALSE], 200)]
             ELSE posts' = [posts EXCEPT ![q] = [post EXCEPT !.pc = "insert"]]
  /\ UNCHANGED <<now, ticks, requests, userProfiles, beacons, beaconMatches, notifications,
                 runs, opSeq, chatVars, reply, transport>>

\* POST /conversations: INSERT INTO conversations DEFAULT VALUES RETURNING
ConversationInsert(q) ==
  /\ posts[q].pc = "insert" /\ posts[q].route = "POST /conversations"
  /\ conversations' = Append(conversations, [lastMessageAt |-> now, touched |-> 0])
  /\ posts' = [posts EXCEPT ![q].convo = Len(conversations) + 1, ![q].pc = "participants"]
  /\ UNCHANGED <<now, ticks, requests, userProfiles, beacons, beaconMatches, notifications,
                 runs, opSeq, sockets, emitted, messages, conversationParticipants, tasks,
                 reply, transport>>

\* the two rows of db.insert(conversationParticipants).values([...])
participantValues(post) ==
  { [conversationId |-> post.convo, userId |-> post.userId],
    [conversationId |-> post.convo, userId |-> post.otherUserId] }
\* user_id REFERENCES users(id): the statement inserts all rows or none
referencesUsers(rows) == \A row \in rows : row.userId \in Users

\* POST /conversations: the insert of the two participants and the response;
\* when the insert rejects the handler ends without one
ConversationParticipants(q) ==
  /\ posts[q].pc = "participants"
  /\ IF referencesUsers(participantValues(posts[q]))
     THEN /\ conversationParticipants' =
               conversationParticipants \cup participantValues(posts[q])
          /\ posts' = [posts EXCEPT ![q] =
               respond([posts[q] EXCEPT !.conversationId = posts[q].convo,
                                        !.isNew = TRUE], 200)]
     ELSE /\ UNCHANGED conversationParticipants
          /\ posts' = [posts EXCEPT ![q].pc = "failed"]
  /\ UNCHANGED <<now, ticks, requests, userProfiles, beacons, beaconMatches, notifications,
                 runs, opSeq, sockets, emitted, messages, conversations, tasks, reply, transport>>

\* ------------------------------------------------------ runBeaconMatching
\* the load of the qualifying beacons, the grouping and the start of the loops
RunLoad(r) ==
  /\ runs[r].pc = "idle"
  /\ LET active == activeBeaconsOf(beacons, now)
         groups == IF Len(active) < 2 THEN <<>> ELSE groupByTimezone(active)
         run == [runs[r] EXCEPT !.active = active, !.byTimezone = groups,
                   !.todo = allPairs(groups), !.t0 = now,
                   !.store = beacons, !.after = {q \in Runs : runs[q].pc = "done"}]
     IN runs' = [runs EXCEPT ![r] = Continue(run, 1)]
  /\ UNCHANGED <<now, ticks, requests, userProfiles, beacons, beaconMatches, notifications, opSeq,
                 chatVars, restVars>>

\* try { await runBeaconMatching() } catch (err) { console.error(...) }: the
\* callback of the tick ends, the other ticks are not touched.  Without the
\* catch the rejection would end the process and with it every run.
cronCatchMutRethrow(rs, r) == [q \in Runs |-> [rs[q] EXCEPT !.pc = "failed", !.t0 = now]]
cronCatch(rs, r) == [rs EXCEPT ![r].pc = "failed", ![r].t0 = now]

\* the load rejects: the error leaves runBeaconMatching and is caught by the cron callback
RunLoadFails(r) ==
  /\ runs[r].pc = "idle"
  /\ runs' = cronCatch(runs, r)
  /\ UNCHANGED <<now, ticks, requests, userProfiles, beacons, beaconMatches, notifications, opSeq,
                 chatVars, restVars>>

\* the existing-match query of the pair at k
RunCheck(r) ==
  /\ runs[r].pc = "check"
  /\ LET run == runs[r]
         p == run.todo[run.k]
     IN runs' = [runs EXCEPT ![r] =
          IF existingMatch(p, now)
          THEN Continue(run, run.k + 1)
          ELSE [run EXCEPT !.pc = "compare",
                           !.totalComparisons = run.totalComparisons + 1]]
  /\ UNCHANGED <<now, ticks, requests, userProfiles, beacons, beaconMatches, notifications, opSeq,
                 chatVars, restVars>>

\* what the run does with the comparator's answer for the pair at k:
\* if (result.isMatch) { totalMatches++; ... }, no other field is looked at
RunAnswer(r, result) ==
  /\ runs[r].pc = "compare"
  /\ LET run == [runs[r] EXCEPT
                     !.answers = Append(runs[r].answers,
                        [a |-> runs[r].todo[runs[r].k].a.id,
                         b |-> runs[r].todo[runs[r].k].b.id, result |-> result])]
     IN runs' = [runs EXCEPT ![r] =
          IF result = Throws THEN onCompareError(run)
          ELSE IF result.isMatch
               THEN [run EXCEPT !.pc = "insert", !.result = result,
                                !.totalMatches = run.totalMatches + 1]
               ELSE Continue(run, run.k + 1)]
  /\ UNCHANGED <<now, ticks, requests, userProfiles, beacons, beaconMatches, notifications, opSeq,
                 chatVars, restVars>>

\* compareBeacons answers or throws
RunCompare(r) == \E result \in CompareResults \cup {Throws} : RunAnswer(r, result)

\* db.insert(beaconMatches).values([a->b, b->a]).onConflictDoNothing()
RunInsert(r) ==
  /\ runs[r].pc = "insert"
  /\ LET run == runs[r]
         rows == onConflictDoNothing(matchValues(run.todo[run.k], run.result, r))
     IN /\ beaconMatches' = beaconMatches \cup rows
        /\ runs' = [runs EXCEPT ![r].pc = "notify",
                                ![r].added = run.added + Cardinality(rows)]
  /\ opSeq' = opSeq + 1
  /\ UNCHANGED <<now, ticks, requests, userProfiles, beacons, notifications, chatVars, restVars>>

\* db.insert(notifications).values([owner of a, owner of b])
RunNotify(r) ==
  /\ runs[r].pc = "notify"
  /\ notifications' = notifications
        \o matchNotifications(runs[r].todo[runs[r].k], runs[r].result, r)
  /\ runs' = [runs EXCEPT ![r].pc = "push"]
  /\ UNCHANGED <<now, ticks, requests, userProfiles, beacons, beaconMatches, opSeq, chatVars, restVars>>

\* the two profile reads and Promise.all([sendPushToUser, sendPushToUser]):
\* push records on the two rows of the pair what became of the submissions
RunPush(r) ==
  /\ runs[r].pc = "push"
  /\ LET p == runs[r].todo[runs[r].k]
         mine(n) == /\ notifications[n].run = r
                    /\ {notifications[n].beaconId, notifications[n].matchedBeaconId}
                         = {p.a.id, p.b.id}
     IN /\ notifications' = [n \in DOMAIN notifications |->
              IF mine(n)
              THEN [notifications[n] EXCEPT !.push = pushOutcome(notifications[n].userId)]
              ELSE notifications[n]]
        /\ runs' = IF sendPushToUser(p.a.userId).throws \/ sendPushToUser(p.b.userId).throws
                   THEN cronCatch(runs, r)
                   ELSE [runs EXCEPT ![r].pc = "update"]
  /\ UNCHANGED <<now, ticks, requests, userProfiles, beacons, beaconMatches, opSeq,
                 chatVars, restVars>>

\* UPDATE beacons SET lastMatchedAt = now WHERE id IN (a, b), then the next pair
RunUpdate(r) ==
  /\ runs[r].pc = "update"
  /\ LET p == runs[r].todo[runs[r].k]
     IN beacons' = [i \in BeaconIds |->
          IF i \in {p.a.id, p.b.id} THEN [beacons[i] EXCEPT !.lastMatchedAt = now]
          ELSE beacons[i]]
  /\ runs' = [runs EXCEPT ![r] = Continue(runs[r], runs[r].k + 1)]
  /\ UNCHANGED <<now, ticks, requests, userProfiles, beaconMatches, notifications, opSeq,
                 chatVars, restVars>>

\* ------------------------------------------------------------ index.ts
\* message contents after trim(): the text, its length and the @tokens in it
\* as written ("long" stands for a text of 2001 characters)
Contents ==
  { [text |-> "hi there", length |-> 8, tokens |-> <<>>],
    [text |-> "hi @Bob", length |-> 7, tokens |-> <<"Bob">>],
    [text |-> "hi @Bob and @Carol", length |-> 18, tokens |-> <<"Bob", "Carol">>],
    [text |-> "long", length |-> 2001, tokens |-> <<>>],
    [text |-> "", length |-> 0, tokens |-> <<>>] }

\* what a client sends as data.content: a text with white space around it, or
\* nothing at all
NoContent == [text |-> "", length |-> 0, tokens |-> <<>>]
RawContents ==
  [given : {TRUE}, spaces : {0, 1}, body : Contents]
    \cup {[given |-> FALSE, spaces |-> 0, body |-> NoContent]}

\* data.content?.trim(): undefined when no content was sent
trim(data) == IF data.given THEN data.body ELSE NoContent

\* [...content.matchAll(/@([a-zA-Z0-9_]+)/g)].map((m) => m[1].toLowerCase())
mentionedHandles(content) ==
  [i \in DOMAIN content.tokens |-> toLowerCase(content.tokens[i])]

\* if (!content || content.length > 2000) return
droppedMutNoLimit(content) == content.length = 0
dropped(content) == content.length = 0 \/ content.length > 2000

\* dropped records the event a handler returned from without effect: why
\* ("content", "participant", "persist" when the insert of the message
\* rejected, "push" when the push rejected, "exit" when the process ended
\* under the handler), the length of
\* the trimmed content, the conversation named and the sender
NoDrop == [why |-> NULL, length |-> 0, conversationId |-> 0, userId |-> 0]

\* seq numbers the accepted events in the order the server received them
IdleTask ==
  [pc |-> "idle", event |-> NULL, socket |-> 0, userId |-> 0, handle |-> NULL,
   timezone |-> NULL, content |-> NULL, conversationId |-> 0, msgId |-> 0,
   recipients |-> <<>>, i |-> 1, dropped |-> NoDrop, seq |-> 0]

\* the number of the next accepted event
received ==
  {tasks[t].seq : t \in TaskIds} \cup {messages[m].seq : m \in DOMAIN messages}
nextSeq == 1 + (CHOOSE x \in received : \A y \in received : y <= x)

\* socket.join(timezoneRoom); socket.join(`user:${userId}`)
joinedOnConnectMutNoUserRoom(timezone, userId) == { timezoneRoom(timezone) }
joinedOnConnect(timezone, userId) == { timezoneRoom(timezone), userRoom(userId) }

\* socket.data and the rooms of a socket of user u after io.use and
\* io.on('connection')
connection(u) ==
  [open |-> TRUE, userId |-> u,
   timezone |-> IF userProfiles[u].timezone = NULL THEN "UTC"
                ELSE userProfiles[u].timezone,
   handle |-> IF userProfiles[u].handle = NULL THEN "unknown"
              ELSE userProfiles[u].handle,
   rooms |-> joinedOnConnect(IF userProfiles[u].timezone = NULL THEN "UTC"
                             ELSE userProfiles[u].timezone, u),
   last |-> NoEvent]

\* io.use + io.on('connection'): verify the token, read the profile, join the
\* timezone room and the user room
Connect(c, u, tokenValid) ==
  /\ ~ sockets[c].open
  /\ IF tokenValid
     THEN sockets' = [sockets EXCEPT ![c] = connection(u)]
     ELSE UNCHANGED sockets
  /\ UNCHANGED <<now, ticks, requests, userProfiles, beacons, beaconMatches, notifications,
                 runs, opSeq, emitted, messages, conversations,
                 conversationParticipants, tasks, restVars>>

\* the transport closes: the socket leaves all its rooms
Disconnect(c) ==
  /\ sockets[c].open
  /\ sockets' = [sockets EXCEPT ![c] = ClosedSocket]
  /\ UNCHANGED <<now, ticks, requests, userProfiles, beacons, beaconMatches, notifications,
                 runs, opSeq, emitted, messages, conversations,
                 conversationParticipants, tasks, restVars>>

\* io.to(room).emit(event, payload): the event with the sockets in the room
\* now; nth counts the events in the order they were emitted
emit(event, type, room, ref) ==
  [event |-> event, type |-> type, room |-> room, ref |-> ref, to |-> inRoom(room),
   from |-> 0, nth |-> Cardinality(emitted) + 1]

\* socket.join(room) and socket.leave(room): the rooms of a socket are a Set
joinMutOnlyRoom(rooms, room) == {room}
join(rooms, room) == rooms \cup {room}
leaveMutAll(rooms, room) == {}
leave(rooms, room) == rooms \ {room}

\* socket.on('dm:join'): socket.join(`conversation:${conversationId}`)
DmJoin(c, conversationId) ==
  /\ sockets[c].open
  /\ sockets' = [sockets EXCEPT
        ![c].rooms = join(@, conversationRoom(conversationId)),
        ![c].last = [event |-> "dm:join", room |-> conversationRoom(conversationId),
                     before |-> sockets[c].rooms]]
  /\ UNCHANGED <<now, ticks, requests, userProfiles, beacons, beaconMatches, notifications,
                 runs, opSeq, emitted, messages, conversations,
                 conversationParticipants, tasks, restVars>>

\* socket.on('dm:leave'): socket.leave(`conversation:${conversationId}`)
DmLeave(c, conversationId) ==
  /\ sockets[c].open
  /\ sockets' = [sockets EXCEPT
        ![c].rooms = leave(@, conversationRoom(conversationId)),
        ![c].last = [event |-> "dm:leave", room |-> conversationRoom(conversationId),
                     before |-> sockets[c].rooms]]
  /\ UNCHANGED <<now, ticks, requests, userProfiles, beacons, beaconMatches, notifications,
                 runs, opSeq, emitted, messages, conversations,
                 conversationParticipants, tasks, restVars>>

\* socket.to(room).emit(event, payload): the sockets in the room now, the
\* sending socket left out
emitToOthersMutAll(c, event, room) ==
  [event |-> event, type |-> NULL, room |-> room, ref |-> 0, to |-> inRoom(room),
   from |-> c, nth |-> Cardinality(emitted) + 1]
emitToOthers(c, event, room) ==
  [event |-> event, type |-> NULL, room |-> room, ref |-> 0, to |-> inRoom(room) \ {c},
   from |-> c, nth |-> Cardinality(emitted) + 1]

\* the typing events relayed so far
typingEvents == {e \in emitted : e.event \in {"typing:start", "typing:stop"}}

\* the payloads a client may send with a typing event: roomId is any string
\* the client chooses, conversationId any number, and either may be missing
TypingData ==
  [roomId : {NoRoom, timezoneRoom("UTC"), userRoom(2), conversationRoom(1)},
   conversationId : {0} \cup ConversationIds]

\* if (data.roomId) ... else if (data.conversationId) ...
typingTarget(data) ==
  IF data.roomId # NoRoom THEN data.roomId
  ELSE IF data.conversationId # 0 THEN conversationRoom(data.conversationId)
  ELSE NoRoom

\* socket.on('typing:start') and socket.on('typing:stop')
Typing(c, event, data) ==
  /\ sockets[c].open
  /\ Cardinality(typingEvents) < MaxTyping
  /\ emitted' = IF typingTarget(data) = NoRoom THEN emitted
                ELSE emitted \cup {emitToOthers(c, event, typingTarget(data))}
  /\ UNCHANGED <<now, ticks, requests, userProfiles, beacons, beaconMatches, notifications,
                 runs, opSeq, sockets, messages, conversations,
                 conversationParticipants, tasks, restVars>>

\* the users a finished persist step has to notify, the sender left out:
\* if (mentionedId === userId) continue / if (p.userId === userId) continue
othersFromMutNoSkip(ids, userId, i) == i
RECURSIVE othersFrom(_, _, _)
othersFrom(ids, userId, i) ==
  IF i > Len(ids) THEN i
  ELSE IF ids[i] = userId THEN othersFrom(ids, userId, i + 1) ELSE i

\* position of the handler after recipient i - 1 is done
NextRecipient(task, i) ==
  LET i2 == othersFrom(task.recipients, task.userId, i)
  IN IF i2 > Len(task.recipients) THEN IdleTask
     ELSE [task EXCEPT !.i = i2, !.pc = "notify"]

\* socket.on('room:message'): validation and mention parsing
RoomMessage(t, c, data) ==
  /\ tasks[t].pc = "idle"
  /\ Len(messages) < MaxMessages
  /\ nextSeq <= MaxMessages + MaxTasks
  /\ sockets[c].open
  /\ LET content == trim(data)
     IN IF dropped(content)
        THEN tasks' = [tasks EXCEPT ![t] =
               [IdleTask EXCEPT !.dropped =
                  [why |-> "content", length |-> content.length,
                   conversationId |-> 0, userId |-> sockets[c].userId]]]
        ELSE tasks' = [tasks EXCEPT ![t] =
               [IdleTask EXCEPT !.event = "room:message", !.socket = c,
                  !.userId = sockets[c].userId, !.handle = sockets[c].handle,
                  !.timezone = sockets[c].timezone, !.content = content,
                  !.seq = nextSeq,
                  !.pc = IF Len(mentionedHandles(content)) > 0 THEN "lookup"
                         ELSE "persist"]]
  /\ UNCHANGED <<now, ticks, requests, userProfiles, beacons, beaconMatches, notifications,
                 runs, opSeq, sockets, emitted, messages, conversations,
                 conversationParticipants, restVars>>

\* SELECT userId FROM userProfiles WHERE handle = mentionedHandles[0]
mentionedProfiles(content) ==
  LET found == {u \in Users : /\ userProfiles[u].exists
                              /\ userProfiles[u].handle = mentionedHandles(content)[1]}
  IN IF found = {} THEN <<>> ELSE <<CHOOSE u \in found : TRUE>>

RoomLookup(t) ==
  /\ tasks[t].pc = "lookup"
  /\ tasks' = [tasks EXCEPT ![t].recipients = mentionedProfiles(tasks[t].content),
                            ![t].pc = "persist"]
  /\ UNCHANGED <<now, ticks, requests, userProfiles, beacons, beaconMatches, notifications,
                 runs, opSeq, sockets, emitted, messages, conversations,
                 conversationParticipants, restVars>>

\* INSERT INTO messages ... RETURNING, then io.to(timezoneRoom).emit('room:message')
RoomPersist(t) ==
  /\ tasks[t].pc = "persist" /\ tasks[t].event = "room:message"
  /\ messages' = Append(messages,
        [content |-> tasks[t].content.text, senderId |-> tasks[t].userId,
         roomId |-> timezoneRoom(tasks[t].timezone), conversationId |-> 0,
         mentions |-> tasks[t].recipients, createdAt |-> now,
         socket |-> tasks[t].socket, seq |-> tasks[t].seq])
  /\ emitted' = emitted \cup
        {emit("room:message", NULL, timezoneRoom(tasks[t].timezone), Len(messages) + 1)}
  /\ tasks' = [tasks EXCEPT ![t] =
        NextRecipient([tasks[t] EXCEPT !.msgId = Len(messages) + 1], 1)]
  /\ UNCHANGED <<now, ticks, requests, userProfiles, beacons, beaconMatches, notifications,
                 runs, opSeq, sockets, conversations, conversationParticipants, restVars>>

\* What a rejected promise that nothing handles does to the process: Node
\* prints a warning and goes on ("warn", the default before Node 15), or raises
\* an uncaught exception that ends the process ("throw", the default since
\* Node 15): every connection closes and every handler in flight is lost.
UnhandledRejections == {"warn", "throw"}

\* the insert of handler t rejects: the async listener has no try/catch and
\* socket.io does not wait for the promise it returns
Rejected(t, mode) ==
  /\ tasks' = [x \in TaskIds |->
        IF x = t
        THEN [IdleTask EXCEPT !.dropped =
                [why |-> "persist", length |-> tasks[t].content.length,
                 conversationId |-> tasks[t].conversationId, userId |-> tasks[t].userId]]
        ELSE IF mode = "throw" /\ tasks[x].pc # "idle"
             THEN [IdleTask EXCEPT !.dropped =
                     [why |-> "exit", length |-> tasks[x].content.length,
                      conversationId |-> tasks[x].conversationId,
                      userId |-> tasks[x].userId]]
             ELSE tasks[x]]
  /\ sockets' = IF mode = "throw" THEN [c \in SocketIds |-> ClosedSocket] ELSE sockets

\* INSERT INTO messages of room:message fails
RoomPersistFails(t, mode) ==
  /\ tasks[t].pc = "persist" /\ tasks[t].event = "room:message"
  /\ Rejected(t, mode)
  /\ UNCHANGED <<now, ticks, requests, userProfiles, beacons, beaconMatches, notifications,
                 runs, opSeq, emitted, messages, conversations,
                 conversationParticipants, restVars>>

\* INSERT INTO messages of dm:message fails
DmPersistFails(t, mode) ==
  /\ tasks[t].pc = "persist" /\ tasks[t].event = "dm:message"
  /\ Rejected(t, mode)
  /\ UNCHANGED <<now, ticks, requests, userProfiles, beacons, beaconMatches, notifications,
                 runs, opSeq, emitted, messages, conversations,
                 conversationParticipants, restVars>>

\* socket.on('dm:message'): validation
DmMessage(t, c, conversationId, data) ==
  /\ tasks[t].pc = "idle"
  /\ Len(messages) < MaxMessages
  /\ nextSeq <= MaxMessages + MaxTasks
  /\ sockets[c].open
  /\ LET content == trim(data)
     IN IF dropped(content)
        THEN tasks' = [tasks EXCEPT ![t] =
               [IdleTask EXCEPT !.dropped =
                  [why |-> "content", length |-> content.length,
                   conversationId |-> conversationId, userId |-> sockets[c].userId]]]
        ELSE tasks' = [tasks EXCEPT ![t] =
               [IdleTask EXCEPT !.event = "dm:message", !.socket = c,
                  !.userId = sockets[c].userId, !.handle = sockets[c].handle,
                  !.timezone = sockets[c].timezone, !.content = content,
                  !.seq = nextSeq,
                  !.conversationId = conversationId, !.pc = "participation"]]
  /\ UNCHANGED <<now, ticks, requests, userProfiles, beacons, beaconMatches, notifications,
                 runs, opSeq, sockets, emitted, messages, conversations,
                 conversationParticipants, restVars>>

\* SELECT ... WHERE conversationId = :id AND userId = :user LIMIT 1
participationMutAnyUser(conversationId, userId) ==
  {cp \in conversationParticipants : cp.conversationId = conversationId}
participation(conversationId, userId) ==
  {cp \in conversationParticipants :
     cp.conversationId = conversationId /\ cp.userId = userId}

DmParticipation(t) ==
  /\ tasks[t].pc = "participation"
  /\ tasks' = [tasks EXCEPT ![t] =
        IF participation(tasks[t].conversationId, tasks[t].userId) = {}
        THEN [IdleTask EXCEPT !.dropped =
                [why |-> "participant", length |-> tasks[t].content.length,
                 conversationId |-> tasks[t].conversationId,
                 userId |-> tasks[t].userId]]
        ELSE [tasks[t] EXCEPT !.pc = "persist"]]
  /\ UNCHANGED <<now, ticks, requests, userProfiles, beacons, beaconMatches, notifications,
                 runs, opSeq, sockets, emitted, messages, conversations,
                 conversationParticipants, restVars>>

\* INSERT INTO messages ... RETURNING
DmPersist(t) ==
  /\ tasks[t].pc = "persist" /\ tasks[t].event = "dm:message"
  /\ messages' = Append(messages,
        [content |-> tasks[t].content.text, senderId |-> tasks[t].userId,
         roomId |-> NoRoom,
         conversationId |-> tasks[t].conversationId,
         mentions |-> <<>>, createdAt |-> now,
         socket |-> tasks[t].socket, seq |-> tasks[t].seq])
  /\ tasks' = [tasks EXCEPT ![t].msgId = Len(messages) + 1, ![t].pc = "touch"]
  /\ UNCHANGED <<now, ticks, requests, userProfiles, beacons, beaconMatches, notifications,
                 runs, opSeq, sockets, emitted, conversations, conversationParticipants, restVars>>

\* UPDATE conversations SET lastMessageAt, then io.to(conversation room).emit('dm:message')
DmTouchMutSilent(t) ==
  /\ tasks[t].pc = "touch"
  /\ conversations' = [c \in DOMAIN conversations |->
        IF c = tasks[t].conversationId
        THEN [conversations[c] EXCEPT !.lastMessageAt = now, !.touched = @ + 1]
        ELSE conversations[c]]
  /\ tasks' = [tasks EXCEPT ![t].pc = "participants"]
  /\ UNCHANGED <<now, ticks, requests, userProfiles, beacons, beaconMatches, notifications,
                 runs, opSeq, sockets, emitted, messages, conversationParticipants, restVars>>
DmTouch(t) ==
  /\ tasks[t].pc = "touch"
  /\ conversations' = [c \in DOMAIN conversations |->
        IF c = tasks[t].conversationId
        THEN [conversations[c] EXCEPT !.lastMessageAt = now, !.touched = @ + 1]
        ELSE conversations[c]]
  /\ emitted' = emitted \cup
        {emit("dm:message", NULL, conversationRoom(tasks[t].conversationId), tasks[t].msgId)}
  /\ tasks' = [tasks EXCEPT ![t].pc = "participants"]
  /\ UNCHANGED <<now, ticks, requests, userProfiles, beacons, beaconMatches, notifications,
                 runs, opSeq, sockets, messages, conversationParticipants, restVars>>

\* SELECT userId FROM conversation_participants WHERE conversationId = :id
RECURSIVE SeqOfSet(_)
SeqOfSet(S) ==
  IF S = {} THEN <<>>
  ELSE LET x == CHOOSE y \in S : \A z \in S : y <= z
       IN <<x>> \o SeqOfSet(S \ {x})
otherParticipantsMutOnline(conversationId) ==
  SeqOfSet({cp.userId : cp \in {q \in conversationParticipants :
                                  q.conversationId = conversationId /\ Online(q.userId)}})
otherParticipants(conversationId) ==
  SeqOfSet({cp.userId : cp \in {q \in conversationParticipants :
                                  q.conversationId = conversationId}})

DmParticipants(t) ==
  /\ tasks[t].pc = "participants"
  /\ tasks' = [tasks EXCEPT ![t] =
        NextRecipient([tasks[t] EXCEPT
           !.recipients = otherParticipants(tasks[t].conversationId)], 1)]
  /\ UNCHANGED <<now, ticks, requests, userProfiles, beacons, beaconMatches, notifications,
                 runs, opSeq, sockets, emitted, messages, conversations,
                 conversationParticipants, restVars>>

\* the row a message handler inserts into notifications for recipient u
messageNotification(task, u) ==
  IF task.event = "room:message"
  THEN [Notification(u, "mention", task.content.text) EXCEPT
          !.messageId = task.msgId, !.timezone = task.timezone,
          !.senderHandle = task.handle, !.cause = task.msgId,
          !.senderId = task.userId]
  ELSE [Notification(u, "new_dm", task.content.text) EXCEPT
          !.conversationId = task.conversationId, !.senderHandle = task.handle,
          !.cause = task.msgId, !.senderId = task.userId]

\* io.to(`user:${id}`).emit('notification:new', ...) after the row is inserted
liveEvents(task, u, ref) ==
  {emit("notification:new", IF task.event = "room:message" THEN "mention" ELSE "new_dm",
        userRoom(u), ref)}

\* INSERT INTO notifications for the recipient at i, then the live event
TaskNotify(t) ==
  /\ tasks[t].pc = "notify"
  /\ LET u == tasks[t].recipients[tasks[t].i]
     IN /\ notifications' = Append(notifications, messageNotification(tasks[t], u))
        /\ emitted' = emitted \cup liveEvents(tasks[t], u, Len(notifications) + 1)
  /\ tasks' = [tasks EXCEPT ![t].pc = "push"]
  /\ UNCHANGED <<now, ticks, requests, userProfiles, beacons, beaconMatches, runs, opSeq,
                 sockets, messages, conversations, conversationParticipants, restVars>>

\* the profile read and sendPushToUser for the recipient at i; push records
\* on the recipient's row what became of the submission
TaskPush(t) ==
  /\ tasks[t].pc = "push"
  /\ LET u == tasks[t].recipients[tasks[t].i]
         mine(n) == /\ notifications[n].cause = tasks[t].msgId
                    /\ notifications[n].userId = u
                    /\ notifications[n].type \in {"mention", "new_dm"}
     IN /\ notifications' = [n \in DOMAIN notifications |->
              IF mine(n) THEN [notifications[n] EXCEPT !.push = pushOutcome(u)]
              ELSE notifications[n]]
        /\ tasks' = [tasks EXCEPT ![t] =
              IF sendPushToUser(u).throws
              THEN [IdleTask EXCEPT !.dropped =
                      [why |-> "push", length |-> tasks[t].content.length,
                       conversationId |-> tasks[t].conversationId,
                       userId |-> tasks[t].userId]]
              ELSE NextRecipient(tasks[t], tasks[t].i + 1)]
  /\ UNCHANGED <<now, ticks, requests, userProfiles, beacons, beaconMatches,
                 runs, opSeq, sockets, emitted, messages, conversations,
                 conversationParticipants, restVars>>

\* ------------------------------------------------------------------ store
\* a row of the beacons table as its column defaults leave it (isActive true,
\* isSanitized false, no timezone, no expiry)
DefaultBeacon(u) ==
  [userId |-> u, timezone |-> NULL, isActive |-> TRUE, isSanitized |-> FALSE,
   expiresAt |-> NoTime, lastMatchedAt |-> NoTime]

\* a row as POST / inserted it at time createdAt for a user whose profile
\* timezone was tz then
PostedBeacon(u, tz, createdAt) ==
  [userId |-> u, timezone |-> tz, isActive |-> TRUE, isSanitized |-> TRUE,
   expiresAt |-> createdAt + ExpiryTicks, lastMatchedAt |-> NoTime]

\* is_premium is written by no handler: a premium user is one whose profile row
\* carries the flag when the process starts
PremiumProfile ==
  [handle |-> "alice", timezone |-> "UTC", isPremium |-> TRUE, exists |-> TRUE]


\* Beacon tables the matcher is run on: user 1 (premium) posted beacons 1 and 3,
\* user 2 (no profile, so no timezone) posted beacon 2; beacon 3 was posted 29
\* days ago; beacon 4 is a row that never went through moderation; beacon 5
\* was posted 30 days ago and has expired.
BeaconTables ==
  { << PostedBeacon(1, tz1, 0), PostedBeacon(2, NULL, 0),
       PostedBeacon(1, "UTC", WindowTicks - ExpiryTicks), DefaultBeacon(2),
       PostedBeacon(2, "UTC", 0 - ExpiryTicks) >>
    : tz1 \in Timezones }

InitStore ==
  /\ now = 0
  /\ ticks = 0
  /\ requests = 0
  /\ beaconMatches = {}
  /\ notifications = <<>>
  /\ runs = [r \in Runs |-> IdleRun]
  /\ opSeq = 0
  /\ sockets = [c \in SocketIds |-> ClosedSocket]
  /\ emitted = {}
  /\ messages = <<>>
  /\ tasks = [t \in TaskIds |-> IdleTask]
  /\ posts = [q \in PostIds |-> IdlePost]
  /\ reply = NoReply
  /\ transport = "up"

\* ------------------------------------------------------------- the matcher
InitMatch ==
  /\ InitStore
  /\ conversations = <<>>
  /\ conversationParticipants = {}
  /\ userProfiles = [u \in Users |-> IF u = 1 THEN PremiumProfile ELSE NoProfile]
  /\ beacons \in BeaconTables

NextMatch ==
  \/ Tick
  \/ \E u \in Users, id \in BeaconIds : DeactivateBeacon(u, id)
  \/ \E r \in Runs : RunLoad(r)
  \/ \E r \in Runs : RunLoadFails(r)
  \/ \E r \in Runs : RunCheck(r)
  \/ \E r \in Runs : RunCompare(r)
  \/ \E r \in Runs : RunInsert(r)
  \/ \E r \in Runs : RunNotify(r)
  \/ \E r \in Runs : RunPush(r)
  \/ \E r \in Runs : RunUpdate(r)

SpecMatch == InitMatch /\ [][NextMatch]_vars

\* the handler slots of the specifications in which the socket events are
\* handled one after the other
OneAtATime == {1}

\* ------------------------------------------------- notification fan-out
\* users 1 and 2 are onboarded, share conversation 1 and each have a
\* qualifying beacon in the same bucket
InitFanout ==
  /\ InitStore
  /\ userProfiles = [u \in Users |->
        IF u = 1 THEN PremiumProfile
        ELSE IF u = 2
             THEN [handle |-> "bob", timezone |-> "UTC", isPremium |-> FALSE,
                   exists |-> TRUE]
             ELSE NoProfile]
  /\ beacons = << PostedBeacon(1, "UTC", 0), PostedBeacon(2, "UTC", 0) >>
  /\ conversations = << [lastMessageAt |-> 0, touched |-> 0] >>
  /\ conversationParticipants =
        { [conversationId |-> 1, userId |-> 1], [conversationId |-> 1, userId |-> 2] }

NextFanout ==
  \/ \E c \in SocketIds, u \in Users, ok \in BOOLEAN : Connect(c, u, ok)
  \/ \E c \in SocketIds : Disconnect(c)
  \/ \E t \in OneAtATime, c \in SocketIds, data \in RawContents : RoomMessage(t, c, data)
  \/ \E t \in OneAtATime : RoomLookup(t)
  \/ \E t \in OneAtATime : RoomPersist(t)
  \/ \E t \in OneAtATime, c \in SocketIds, data \in RawContents :
       DmMessage(t, c, 1, data)
  \/ \E t \in OneAtATime : DmParticipation(t)
  \/ \E t \in OneAtATime : DmPersist(t)
  \/ \E t \in OneAtATime : DmTouch(t)
  \/ \E t \in OneAtATime : DmParticipants(t)
  \/ \E t \in OneAtATime : TaskNotify(t)
  \/ \E t \in OneAtATime : TaskPush(t)
  \/ RunLoad(1)
  \/ RunCheck(1)
  \/ RunCompare(1)
  \/ RunInsert(1)
  \/ RunNotify(1)
  \/ RunPush(1)
  \/ RunUpdate(1)

SpecFanout == InitFanout /\ [][NextFanout]_vars

\* ------------------------------------------------------------------ chat
\* alice, bob and carol are onboarded; carol lives in another timezone;
\* conversation 1 is the one of alice and bob
InitChat ==
  /\ InitStore
  /\ userProfiles = [u \in Users |->
        IF u = 1 THEN PremiumProfile
        ELSE IF u = 2
             THEN [handle |-> "bob", timezone |-> "UTC", isPremium |-> FALSE,
                   exists |-> TRUE]
             ELSE IF u = 3
                  THEN [handle |-> "carol", timezone |-> "America/New_York",
                        isPremium |-> FALSE, exists |-> TRUE]
                  ELSE NoProfile]
  /\ beacons = <<>>
  /\ conversations = << [lastMessageAt |-> 0, touched |-> 0] >>
  /\ conversationParticipants =
        { [conversationId |-> 1, userId |-> 1], [conversationId |-> 1, userId |-> 2] }

\* connections, room membership and typing indicators
NextRooms ==
  \/ \E c \in SocketIds, u \in Users, ok \in BOOLEAN : Connect(c, u, ok)
  \/ \E c \in SocketIds : Disconnect(c)
  \/ \E c \in SocketIds, id \in ConversationIds : DmJoin(c, id)
  \/ \E c \in SocketIds, id \in ConversationIds : DmLeave(c, id)
  \/ \E c \in SocketIds, event \in {"typing:start", "typing:stop"}, data \in TypingData :
       Typing(c, event, data)

SpecRooms == InitChat /\ [][NextRooms]_vars

\* connections, conversation rooms and the two message handlers
NextChat ==
  \/ \E c \in SocketIds, u \in Users, ok \in BOOLEAN : Connect(c, u, ok)
  \/ \E c \in SocketIds : Disconnect(c)
  \/ \E c \in SocketIds : DmJoin(c, 1)
  \/ \E t \in OneAtATime, c \in SocketIds, data \in RawContents : RoomMessage(t, c, data)
  \/ \E t \in OneAtATime : RoomLookup(t)
  \/ \E t \in OneAtATime : RoomPersist(t)
  \/ \E t \in OneAtATime, c \in SocketIds, id \in ConversationIds, data \in RawContents :
       DmMessage(t, c, id, data)
  \/ \E t \in OneAtATime : DmParticipation(t)
  \/ \E t \in OneAtATime : DmPersist(t)
  \/ \E t \in OneAtATime : DmTouch(t)
  \/ \E t \in OneAtATime : DmParticipants(t)
  \/ \E t \in OneAtATime : TaskNotify(t)
  \/ \E t \in OneAtATime : TaskPush(t)

SpecChat == InitChat /\ [][NextChat]_vars

\* ------------------------------------------------- overlapping handlers
\* the contents of the events of SpecOrder: a text without and a text with a
\* mention
OrderContents ==
  {d \in RawContents : d.given /\ d.spaces = 0 /\ d.body.text \in {"hi there", "hi @Bob"}}

\* alice, bob and carol as in InitChat; socket 1 is a connection of alice and
\* every other socket one of bob
InitOrder ==
  /\ now = 0
  /\ ticks = 0
  /\ requests = 0
  /\ beaconMatches = {}
  /\ notifications = <<>>
  /\ runs = [r \in Runs |-> IdleRun]
  /\ opSeq = 0
  /\ emitted = {}
  /\ messages = <<>>
  /\ tasks = [t \in TaskIds |-> IdleTask]
  /\ posts = [q \in PostIds |-> IdlePost]
  /\ reply = NoReply
  /\ transport = "up"
  /\ userProfiles = [u \in Users |->
        IF u = 1 THEN PremiumProfile
        ELSE IF u = 2
             THEN [handle |-> "bob", timezone |-> "UTC", isPremium |-> FALSE,
                   exists |-> TRUE]
             ELSE IF u = 3
                  THEN [handle |-> "carol", timezone |-> "America/New_York",
                        isPremium |-> FALSE, exists |-> TRUE]
                  ELSE NoProfile]
  /\ beacons = <<>>
  /\ conversations = << [lastMessageAt |-> 0, touched |-> 0] >>
  /\ conversationParticipants =
        { [conversationId |-> 1, userId |-> 1], [conversationId |-> 1, userId |-> 2] }
  /\ sockets = [c \in SocketIds |-> IF c = 1 THEN connection(1) ELSE connection(2)]

\* message handlers that overlap, with inserts that fail
NextOrder ==
  \/ \E t \in TaskIds, c \in SocketIds, data \in OrderContents : RoomMessage(t, c, data)
  \/ \E t \in TaskIds : RoomLookup(t)
  \/ \E t \in TaskIds : RoomPersist(t)
  \/ \E t \in TaskIds, mode \in UnhandledRejections : RoomPersistFails(t, mode)
  \/ \E t \in TaskIds, c \in SocketIds, data \in OrderContents : DmMessage(t, c, 1, data)
  \/ \E t \in TaskIds : DmParticipation(t)
  \/ \E t \in TaskIds : DmPersist(t)
  \/ \E t \in TaskIds, mode \in UnhandledRejections : DmPersistFails(t, mode)
  \/ \E t \in TaskIds : DmTouch(t)
  \/ \E t \in TaskIds : DmParticipants(t)
  \/ \E t \in TaskIds : TaskNotify(t)
  \/ \E t \in TaskIds : TaskPush(t)

SpecOrder == InitOrder /\ [][NextOrder]_vars

\* ------------------------------------------------------------------- push
\* alice, bob and carol each have a qualifying beacon in the bucket "UTC",
\* alice and bob are connected and share conversation 1; the push service is
\* up or down
InitPush ==
  /\ now = 0
  /\ ticks = 0
  /\ requests = 0
  /\ beaconMatches = {}
  /\ notifications = <<>>
  /\ runs = [r \in Runs |-> IdleRun]
  /\ opSeq = 0
  /\ emitted = {}
  /\ messages = <<>>
  /\ tasks = [t \in TaskIds |-> IdleTask]
  /\ posts = [q \in PostIds |-> IdlePost]
  /\ reply = NoReply
  /\ transport \in {"up", "down"}
  /\ userProfiles = [u \in Users |->
        IF u = 1 THEN PremiumProfile
        ELSE IF u = 2
             THEN [handle |-> "bob", timezone |-> "UTC", isPremium |-> FALSE,
                   exists |-> TRUE]
             ELSE [handle |-> "carol", timezone |-> "UTC", isPremium |-> FALSE,
                   exists |-> TRUE]]
  /\ beacons = << PostedBeacon(1, "UTC", 0), PostedBeacon(2, "UTC", 0),
                  PostedBeacon(3, "UTC", 0) >>
  /\ conversations = << [lastMessageAt |-> 0, touched |-> 0] >>
  /\ conversationParticipants =
        { [conversationId |-> 1, userId |-> 1], [conversationId |-> 1, userId |-> 2] }
  /\ sockets = [c \in SocketIds |-> IF c = 1 THEN connection(1) ELSE connection(2)]

\* one message handler at a time and one run of the matcher
NextPush ==
  \/ \E t \in OneAtATime, c \in SocketIds, data \in OrderContents : RoomMessage(t, c, data)
  \/ \E t \in OneAtATime : RoomLookup(t)
  \/ \E t \in OneAtATime : RoomPersist(t)
  \/ \E t \in OneAtATime, c \in SocketIds, data \in OrderContents :
       DmMessage(t, c, 1, data)
  \/ \E t \in OneAtATime : DmParticipation(t)
  \/ \E t \in OneAtATime : DmPersist(t)
  \/ \E t \in OneAtATime : DmTouch(t)
  \/ \E t \in OneAtATime : DmParticipants(t)
  \/ \E t \in OneAtATime : TaskNotify(t)
  \/ \E t \in OneAtATime : TaskPush(t)
  \/ RunLoad(1)
  \/ RunCheck(1)
  \/ RunCompare(1)
  \/ RunInsert(1)
  \/ RunNotify(1)
  \/ RunPush(1)
  \/ RunUpdate(1)

SpecPush == InitPush /\ [][NextPush]_vars

\* ----------------------------------------------------------------- scores
\* one run of the matcher over three beacons with every answer the comparator
\* may return
NextScores ==
  \/ RunLoad(1)
  \/ RunCheck(1)
  \/ \E result \in ModelAnswers \cup {Throws} : RunAnswer(1, result)
  \/ RunInsert(1)
  \/ RunNotify(1)
  \/ RunPush(1)
  \/ RunUpdate(1)

SpecScores == InitPush /\ [][NextScores]_vars

\* --------------------------------------------------------------- locality
\* connections of alice ("UTC") and carol ("America/New_York"), the client
\* events that name rooms, a change of alice's profile and room:message
NextLocality ==
  \/ \E c \in SocketIds, ok \in BOOLEAN : Connect(c, IF c = 1 THEN 1 ELSE 3, ok)
  \/ \E c \in SocketIds : Disconnect(c)
  \/ \E c \in SocketIds : DmJoin(c, 1)
  \/ \E c \in SocketIds : DmLeave(c, 1)
  \/ \E c \in SocketIds : Typing(c, "typing:start",
                                 [roomId |-> timezoneRoom("UTC"), conversationId |-> 0])
  \/ Onboarding(1, "al", "America/New_York")
  \/ \E t \in OneAtATime, c \in SocketIds, data \in OrderContents : RoomMessage(t, c, data)
  \/ \E t \in OneAtATime : RoomLookup(t)
  \/ \E t \in OneAtATime : RoomPersist(t)
  \/ \E t \in OneAtATime : TaskNotify(t)
  \/ \E t \in OneAtATime : TaskPush(t)

SpecLocality == InitChat /\ [][NextLocality]_vars

\* ----------------------------------------------------------- conversations
\* get-or-create requests for conversations, two of them at a time
NextConversations ==
  \/ \E q \in PostIds, u \in Users, otherUserId \in OtherUserIds :
       ConversationExisting(q, u, otherUserId)
  \/ \E q \in PostIds : ConversationInsert(q)
  \/ \E q \in PostIds : ConversationParticipants(q)

SpecConversations == InitChat /\ [][NextConversations]_vars

\* ----------------------------------------------------------------- beacons
\* the beacons table at the start: one beacon of alice and one of bob
InitialBeacons == << PostedBeacon(1, "UTC", 0), PostedBeacon(2, "UTC", 0) >>
\* alice (premium) and bob have one beacon each in the bucket "UTC"; user 3
\* has no profile yet
InitBeacons ==
  /\ InitStore
  /\ userProfiles = [u \in Users |->
        IF u = 1 THEN PremiumProfile
        ELSE IF u = 2
             THEN [handle |-> "bob", timezone |-> "UTC", isPremium |-> FALSE,
                   exists |-> TRUE]
             ELSE NoProfile]
  /\ beacons = InitialBeacons
  /\ conversations = <<>>
  /\ conversationParticipants = {}

\* the beacon routes, onboarding and one run of the matcher
NextBeacons ==
  \/ \E u \in Users, handle \in {"Bob", "Carol"}, timezone \in Timezones :
       Onboarding(u, handle, timezone)
  \/ \E q \in PostIds, u \in Users : BeaconCount(q, u)
  \/ \E q \in PostIds : BeaconProfile(q)
  \/ \E q \in PostIds, response \in Responses : BeaconAnalyze(q, response)
  \/ \E q \in PostIds : BeaconInsert(q)
  \/ \E u \in Users, id \in 1..MaxBeacons : DeactivateBeacon(u, id)
  \/ RunLoad(1)
  \/ RunCheck(1)
  \/ RunCompare(1)
  \/ RunInsert(1)
  \/ RunNotify(1)
  \/ RunPush(1)
  \/ RunUpdate(1)

SpecBeacons == InitBeacons /\ [][NextBeacons]_vars

\* ---------------------------------------------------------------- helpers
\* the rows of beacon_matches between beacons x and y, in either direction
EdgesBetween(x, y) ==
  { e \in beaconMatches : {e.beaconId, e.matchedBeaconId} = {x, y} }
\* the rows run r inserted between x and y
EdgesOfRun(r, x, y) == { e \in EdgesBetween(x, y) : e.run = r }
\* the ids of the beacon_match notifications run r created for user u about x and y
NotesOfRun(r, u, x, y) ==
  { n \in DOMAIN notifications :
      /\ notifications[n].type = "beacon_match" /\ notifications[n].run = r
      /\ notifications[n].userId = u
      /\ {notifications[n].beaconId, notifications[n].matchedBeaconId} = {x, y} }
\* the comparator was called by run r for the unordered pair x, y
Asked(r, x, y) ==
  \E i \in DOMAIN runs[r].answers :
    {runs[r].answers[i].a, runs[r].answers[i].b} = {x, y}
\* runs r1 and r2 got the same answer for every pair both asked about
SameAnswers(r1, r2) ==
  \A i \in DOMAIN runs[r1].answers, j \in DOMAIN runs[r2].answers :
    {runs[r1].answers[i].a, runs[r1].answers[i].b}
        = {runs[r2].answers[j].a, runs[r2].answers[j].b}
      => runs[r1].answers[i].result = runs[r2].answers[j].result
Finished(r) == runs[r].pc = "done"
\* the bucket a beacon row belongs to, as the source states it
BucketOf(b) == IF b.timezone = NULL THEN "UTC" ELSE b.timezone
\* the unordered pairs of loaded beacons a run has to consider
Eligible(r, x, y) ==
  /\ x \in DOMAIN runs[r].active /\ y \in DOMAIN runs[r].active /\ x < y
  /\ runs[r].active[x].userId # runs[r].active[y].userId
  /\ BucketOf(runs[r].active[x]) = BucketOf(runs[r].active[y])

\* ------------------------------------------------------------------- C1
\* C1: a run that starts after another run has finished, loads the same
\* qualifying beacons and gets the same comparator answers inserts no row
\* into beacon_matches.
SecondRunAddsNothing ==
  \A r1 \in Runs, r2 \in Runs :
    ( /\ r1 # r2 /\ Finished(r2) /\ r1 \in runs[r2].after
      /\ runs[r1].active = runs[r2].active
      /\ SameAnswers(r1, r2) )
    => runs[r2].added = 0
\* C1: a pair goes to the comparator only when the existing-match query found
\* no row between the two beacons, in either direction, created within the
\* last 24 hours.
FreshPairSkipped ==
  \A r \in Runs :
    (runs[r].pc = "check" /\ runs'[r].pc = "compare")
      => ~ \E e \in EdgesBetween(runs[r].todo[runs[r].k].a.id, runs[r].todo[runs[r].k].b.id) :
             e.createdAt > now - WindowTicks
\* C1: running the match job twice in immediate succession over an unchanged
\* set of qualifying beacons with the same comparator answers adds zero rows
\* on the second run, and every pair with an edge of the last 24 hours is
\* skipped before the comparator is called.
C1_Idempotent == [] SecondRunAddsNothing /\ [][FreshPairSkipped]_vars
\* two runs in immediate succession: the first recorded a match, the second
\* skipped that pair and added nothing
C1_Witness ==
  \E r1 \in Runs, r2 \in Runs :
    /\ r1 # r2 /\ Finished(r2) /\ r1 \in runs[r2].after
    /\ runs[r1].active = runs[r2].active /\ SameAnswers(r1, r2)
    /\ runs[r2].t0 = runs[r1].t0
    /\ runs[r1].added = 2
    /\ runs[r2].totalComparisons < runs[r1].totalComparisons
    /\ runs[r2].added = 0

\* ------------------------------------------------------------------- C2
\* C2: for every row (A,B) of beacon_matches there is a row (B,A) with the
\* same score and the same reason written by the same insert statement.
C2_Symmetric ==
  \A e \in beaconMatches :
    \E f \in beaconMatches :
      /\ f.beaconId = e.matchedBeaconId /\ f.matchedBeaconId = e.beaconId
      /\ f.similarityScore = e.similarityScore
      /\ f.matchReason = e.matchReason
      /\ f.op = e.op
C2_Witness == \E r \in Runs : Finished(r) /\ runs[r].added = 2

\* ------------------------------------------------------------------- C3
\* C3: no row of beacon_matches connects two beacons owned by the same user.
C3_NoSelfMatch ==
  \A e \in beaconMatches :
    beacons[e.beaconId].userId # beacons[e.matchedBeaconId].userId
\* a finished run that loaded two beacons of one user in one bucket and
\* recorded a match
C3_Witness ==
  \E r \in Runs :
    /\ Finished(r) /\ runs[r].added > 0
    /\ \E x \in DOMAIN runs[r].active, y \in DOMAIN runs[r].active :
         /\ x # y
         /\ runs[r].active[x].userId = runs[r].active[y].userId
         /\ BucketOf(runs[r].active[x]) = BucketOf(runs[r].active[y])

\* ------------------------------------------------------------------- C4
\* the entries of byTimezone of run r that hold the beacon with this id
GroupsOf(r, id) ==
  { n \in DOMAIN runs[r].byTimezone :
      \E m \in DOMAIN runs[r].byTimezone[n].tzBeacons :
        runs[r].byTimezone[n].tzBeacons[m].id = id }
\* C4: the two beacons of every row of beacon_matches have the same locality
\* bucket and were in one and the same entry of the grouping of the run that
\* wrote the row.
C4_SameBucket ==
  \A e \in beaconMatches :
    /\ BucketOf(beacons[e.beaconId]) = BucketOf(beacons[e.matchedBeaconId])
    /\ Cardinality(GroupsOf(e.run, e.beaconId)) = 1
    /\ GroupsOf(e.run, e.beaconId) = GroupsOf(e.run, e.matchedBeaconId)
\* a finished run that loaded beacons of two buckets and recorded a match
C4_Witness ==
  \E r \in Runs :
    /\ Finished(r) /\ runs[r].added > 0
    /\ \E x \in DOMAIN runs[r].active, y \in DOMAIN runs[r].active :
         BucketOf(runs[r].active[x]) # BucketOf(runs[r].active[y])

\* ------------------------------------------------------------------- C5
\* C5 as stated: a beacon with a recorded locality is in the bucket of that
\* string, a beacon with none is in the bucket "unknown", and no beacon
\* without locality is compared with a beacon that has one.
C5_UnknownBucket ==
  \A r \in Runs :
    /\ \A i \in DOMAIN runs[r].active, n \in DOMAIN runs[r].byTimezone :
         (\E m \in DOMAIN runs[r].byTimezone[n].tzBeacons :
            runs[r].byTimezone[n].tzBeacons[m] = runs[r].active[i])
         => runs[r].byTimezone[n].timezone =
              IF runs[r].active[i].timezone = NULL THEN "unknown"
              ELSE runs[r].active[i].timezone
    /\ \A k \in DOMAIN runs[r].todo :
         /\ runs[r].todo[k].timezone =
              IF runs[r].todo[k].a.timezone = NULL THEN "unknown"
              ELSE runs[r].todo[k].a.timezone
         /\ runs[r].todo[k].timezone =
              IF runs[r].todo[k].b.timezone = NULL THEN "unknown"
              ELSE runs[r].todo[k].b.timezone
    /\ \A i \in DOMAIN runs[r].answers :
         (beacons[runs[r].answers[i].a].timezone = NULL)
           <=> (beacons[runs[r].answers[i].b].timezone = NULL)
\* C5 amended: a beacon with a recorded locality is in the bucket of that
\* string and a beacon with none is in the bucket "UTC", the bucket of the
\* beacons whose recorded locality is "UTC"; a beacon without locality is
\* compared only with beacons that have none or have "UTC", and the
\* beacon_match notifications carry that bucket.
C5_UtcBucket ==
  /\ \A r \in Runs :
       /\ Len(runs[r].active) >= 2 =>
            \A i \in DOMAIN runs[r].active :
              \E n \in DOMAIN runs[r].byTimezone :
                /\ runs[r].byTimezone[n].timezone =
                     IF runs[r].active[i].timezone = NULL THEN "UTC"
                     ELSE runs[r].active[i].timezone
                /\ \E m \in DOMAIN runs[r].byTimezone[n].tzBeacons :
                     runs[r].byTimezone[n].tzBeacons[m] = runs[r].active[i]
                /\ \A n2 \in DOMAIN runs[r].byTimezone :
                     (\E m \in DOMAIN runs[r].byTimezone[n2].tzBeacons :
                        runs[r].byTimezone[n2].tzBeacons[m] = runs[r].active[i])
                     => n2 = n
       /\ \A k \in DOMAIN runs[r].todo :
            /\ runs[r].todo[k].timezone =
                 IF runs[r].todo[k].a.timezone = NULL THEN "UTC"
                 ELSE runs[r].todo[k].a.timezone
            /\ runs[r].todo[k].timezone =
                 IF runs[r].todo[k].b.timezone = NULL THEN "UTC"
                 ELSE runs[r].todo[k].b.timezone
       /\ \A i \in DOMAIN runs[r].answers :
            beacons[runs[r].answers[i].a].timezone = NULL
              => beacons[runs[r].answers[i].b].timezone \in {NULL, "UTC"}
       /\ \A i \in DOMAIN runs[r].answers :
            beacons[runs[r].answers[i].b].timezone = NULL
              => beacons[runs[r].answers[i].a].timezone \in {NULL, "UTC"}
  /\ \A n \in DOMAIN notifications :
       notifications[n].type = "beacon_match"
         => notifications[n].timezone =
              IF beacons[notifications[n].beaconId].timezone = NULL THEN "UTC"
              ELSE beacons[notifications[n].beaconId].timezone
\* a beacon without locality was compared with a beacon whose locality is "UTC"
\* and the match was notified
C5_Witness ==
  \E n \in DOMAIN notifications :
    /\ notifications[n].type = "beacon_match"
    /\ beacons[notifications[n].beaconId].timezone = NULL
    /\ beacons[notifications[n].matchedBeaconId].timezone = "UTC"
    /\ notifications[n].timezone = "UTC"

\* ------------------------------------------------------------------- C6
\* C6: for each pair the comparator reported as a match to a finished run,
\* that run inserted exactly two rows into beacon_matches (one per direction)
\* and created exactly one beacon_match notification for each of the two owners.
C6_TwoEdgesTwoNotes ==
  \A r \in Runs :
    Finished(r) =>
      \A i \in DOMAIN runs[r].answers :
        LET x == runs[r].answers[i].a
            y == runs[r].answers[i].b
        IN runs[r].answers[i].result.isMatch =>
             /\ Cardinality(EdgesOfRun(r, x, y)) = 2
             /\ \E e \in EdgesOfRun(r, x, y) : e.beaconId = x
             /\ \E e \in EdgesOfRun(r, x, y) : e.beaconId = y
             /\ Cardinality(NotesOfRun(r, beacons[x].userId, x, y)) = 1
             /\ Cardinality(NotesOfRun(r, beacons[y].userId, x, y)) = 1

\* a finished run got a match from the comparator for a pair, inserted no row
\* for it and created the two notifications
C6_Witness ==
  \E r \in Runs :
    /\ Finished(r)
    /\ \E i \in DOMAIN runs[r].answers :
         LET x == runs[r].answers[i].a
             y == runs[r].answers[i].b
         IN /\ runs[r].answers[i].result.isMatch
            /\ EdgesOfRun(r, x, y) = {}
            /\ Cardinality(EdgesBetween(x, y)) = 2
            /\ Cardinality(NotesOfRun(r, beacons[x].userId, x, y)) = 1
            /\ Cardinality(NotesOfRun(r, beacons[y].userId, x, y)) = 1
            /\ \E q \in runs[r].after :
                 Cardinality(EdgesOfRun(q, x, y)) = 2 /\ runs[q].t0 + WindowTicks <= runs[r].t0

\* ------------------------------------------------------------------- C7
\* the pairs a finished run left uncompared had a row of beacon_matches
\* created within 24 hours before the run's load or later
AllEligibleHandled(r) ==
  \A x \in DOMAIN runs[r].active, y \in DOMAIN runs[r].active :
    Eligible(r, x, y) =>
      \/ Asked(r, runs[r].active[x].id, runs[r].active[y].id)
      \/ \E e \in EdgesBetween(runs[r].active[x].id, runs[r].active[y].id) :
           e.createdAt > runs[r].t0 - WindowTicks
\* C7: when the comparator throws for a pair, the run inserts no row and no
\* notification for that pair, does not abort, still submits every remaining
\* eligible pair and records the ones that match.
C7_ThrowSkipsPair ==
  \A r \in Runs :
    \A i \in DOMAIN runs[r].answers :
      runs[r].answers[i].result = Throws =>
        /\ EdgesOfRun(r, runs[r].answers[i].a, runs[r].answers[i].b) = {}
        /\ \A u \in Users :
             NotesOfRun(r, u, runs[r].answers[i].a, runs[r].answers[i].b) = {}
        /\ runs[r].pc # "failed"
        /\ Finished(r) =>
             /\ AllEligibleHandled(r)
             /\ \A j \in DOMAIN runs[r].answers :
                  runs[r].answers[j].result.isMatch =>
                    /\ \E e \in beaconMatches :
                         /\ e.beaconId = runs[r].answers[j].a
                         /\ e.matchedBeaconId = runs[r].answers[j].b
                    /\ \E e \in beaconMatches :
                         /\ e.beaconId = runs[r].answers[j].b
                         /\ e.matchedBeaconId = runs[r].answers[j].a
\* a finished run in which the comparator threw for one pair and a later pair
\* matched and was recorded by the run
C7_Witness ==
  \E r \in Runs :
    /\ Finished(r)
    /\ \E i \in DOMAIN runs[r].answers, j \in DOMAIN runs[r].answers :
         /\ i < j
         /\ runs[r].answers[i].result = Throws
         /\ runs[r].answers[j].result.isMatch
         /\ Cardinality(EdgesOfRun(r, runs[r].answers[j].a, runs[r].answers[j].b)) = 2

\* ------------------------------------------------------------------- C8
\* the beacon with this id was qualifying in the table run r loaded from
QualifiedAtLoad(r, id) ==
  /\ id \in DOMAIN runs[r].store
  /\ runs[r].store[id].isActive
  /\ runs[r].store[id].isSanitized
  /\ \/ runs[r].store[id].expiresAt = NoTime
     \/ runs[r].store[id].expiresAt > runs[r].t0
\* C8: every row a run wrote connects two beacons that were active, moderated
\* and unexpired when the run loaded; a run that loaded fewer than 2 beacons
\* calls the comparator for no pair and writes nothing.
C8_OnlyQualifying ==
  /\ \A e \in beaconMatches :
       QualifiedAtLoad(e.run, e.beaconId) /\ QualifiedAtLoad(e.run, e.matchedBeaconId)
  /\ \A n \in DOMAIN notifications :
       notifications[n].type = "beacon_match"
         => /\ QualifiedAtLoad(notifications[n].run, notifications[n].beaconId)
            /\ QualifiedAtLoad(notifications[n].run, notifications[n].matchedBeaconId)
  /\ \A r \in Runs :
       /\ \A i \in DOMAIN runs[r].active :
            QualifiedAtLoad(r, runs[r].active[i].id)
       /\ (runs[r].pc \notin {"idle", "failed"}
            /\ Cardinality({id \in DOMAIN runs[r].store : QualifiedAtLoad(r, id)}) < 2)
          => /\ Finished(r)
             /\ runs[r].answers = <<>>
             /\ runs[r].totalComparisons = 0
             /\ runs[r].added = 0
             /\ \A n \in DOMAIN notifications :
                  notifications[n].type = "beacon_match" => notifications[n].run # r
\* a finished run recorded a match although the table it loaded from held an
\* inactive, an unmoderated and an expired beacon, and another finished run
\* found a single qualifying beacon
C8_Witness ==
  /\ \E r \in Runs :
       /\ Finished(r) /\ runs[r].added = 2
       /\ \E id \in DOMAIN runs[r].store :
            /\ ~ runs[r].store[id].isActive
            /\ runs[r].store[id].isSanitized
            /\ runs[r].store[id].expiresAt > runs[r].t0
       /\ \E id \in DOMAIN runs[r].store : ~ runs[r].store[id].isSanitized
       /\ \E id \in DOMAIN runs[r].store :
            /\ runs[r].store[id].expiresAt # NoTime
            /\ runs[r].store[id].expiresAt <= runs[r].t0
  /\ \E r \in Runs :
       /\ Finished(r)
       /\ Cardinality({id \in DOMAIN runs[r].store : QualifiedAtLoad(r, id)}) = 1

\* ------------------------------------------------------------------- C9
\* C9: within one run the comparator is called at most once per unordered
\* pair and only for same-bucket beacons of two distinct users; a finished
\* run has called it for every such pair without an edge in the last 24 hours.
C9_EachPairOnce ==
  \A r \in Runs :
    /\ \A i \in DOMAIN runs[r].answers, j \in DOMAIN runs[r].answers :
         i # j => {runs[r].answers[i].a, runs[r].answers[i].b}
                    # {runs[r].answers[j].a, runs[r].answers[j].b}
    /\ \A i \in DOMAIN runs[r].answers :
         \E x \in DOMAIN runs[r].active, y \in DOMAIN runs[r].active :
           /\ Eligible(r, x, y)
           /\ {runs[r].active[x].id, runs[r].active[y].id}
                = {runs[r].answers[i].a, runs[r].answers[i].b}
    /\ Finished(r) => AllEligibleHandled(r)
\* a finished run that compared two pairs of one bucket
C9_Witness ==
  \E r \in Runs :
    /\ Finished(r) /\ Len(runs[r].answers) >= 2
    /\ \E x \in DOMAIN runs[r].active, y \in DOMAIN runs[r].active :
         x < y /\ ~ Eligible(r, x, y)

\* ------------------------------------------------------------------ C10
\* the notification:new events emitted to the private room of the recipient of
\* row n while at least one of the recipient's sockets was in it
LiveEventsOf(n) ==
  {e \in emitted : /\ e.event = "notification:new"
                   /\ e.type = notifications[n].type
                   /\ e.room = userRoom(notifications[n].userId)
                   /\ e.ref = n
                   /\ e.to # {}}

\* the rows written by the message handlers are each followed by their live event
MessageNotesLive ==
  \A n \in DOMAIN notifications :
    (notifications[n].type \in {"mention", "new_dm"} /\ notifications[n].online)
      => LiveEventsOf(n) # {}

\* C10: every Notification row of kind mention, new_dm or beacon_match whose
\* recipient had an open connection when it was written has a notification:new
\* event emitted to the recipient's private per-user room.
C10_LiveFanout ==
  \A n \in DOMAIN notifications :
    (notifications[n].type \in {"mention", "new_dm", "beacon_match"}
       /\ notifications[n].online)
      => LiveEventsOf(n) # {}

\* an online recipient of a mention with its live event, and an online owner
\* with a beacon_match row
C10_Witness ==
  /\ \E n \in DOMAIN notifications :
       /\ notifications[n].type = "mention" /\ notifications[n].online
       /\ LiveEventsOf(n) # {}
  /\ \E n \in DOMAIN notifications :
       notifications[n].type = "beacon_match" /\ notifications[n].online

\* ------------------------------------------------------------------ C11
\* C11: under any interleaving of overlapping runs, beacon_matches never holds
\* two rows for the same ordered pair (beaconId, matchedBeaconId).
C11_NoDuplicateEdge ==
  \A e \in beaconMatches, f \in beaconMatches :
    (e.beaconId = f.beaconId /\ e.matchedBeaconId = f.matchedBeaconId) => e = f
\* two finished runs that overlapped and both got a match for the same pair:
\* one inserted the two rows, the other none
C11_Witness ==
  \E r1 \in Runs, r2 \in Runs :
    /\ r1 # r2 /\ Finished(r1) /\ Finished(r2)
    /\ r1 \notin runs[r2].after /\ r2 \notin runs[r1].after
    /\ \E i \in DOMAIN runs[r1].answers, j \in DOMAIN runs[r2].answers :
         /\ runs[r1].answers[i].result.isMatch /\ runs[r2].answers[j].result.isMatch
         /\ runs[r1].answers[i].a = runs[r2].answers[j].a
         /\ runs[r1].answers[i].b = runs[r2].answers[j].b
         /\ Cardinality(EdgesOfRun(r1, runs[r1].answers[i].a, runs[r1].answers[i].b)) = 2
         /\ EdgesOfRun(r2, runs[r1].answers[i].a, runs[r1].answers[i].b) = {}

\* ------------------------------------------------------------------ C12
\* C12: a socket without a connection is in no room, and a socket that has
\* connected and sent no dm:join or dm:leave since is in exactly two rooms: the
\* timezone room of its session and the private room of its userId.
C12_ConnectRooms ==
  \A c \in SocketIds :
    /\ ~ sockets[c].open => sockets[c].rooms = {}
    /\ (sockets[c].open /\ sockets[c].last = NoEvent)
         => /\ sockets[c].rooms =
                 { timezoneRoom(sockets[c].timezone), userRoom(sockets[c].userId) }
            /\ Cardinality(sockets[c].rooms) = 2
            /\ sockets[c].timezone =
                 IF userProfiles[sockets[c].userId].timezone = NULL THEN "UTC"
                 ELSE userProfiles[sockets[c].userId].timezone
\* one socket has just connected, the other has no connection
C12_Witness ==
  \E c \in SocketIds, d \in SocketIds :
    /\ sockets[c].open /\ sockets[c].last = NoEvent
    /\ Cardinality(sockets[c].rooms) = 2
    /\ ~ sockets[d].open

\* ------------------------------------------------------------------ C13
\* the rows of the database
persisted ==
  <<userProfiles, beacons, beaconMatches, notifications, messages, conversations,
    conversationParticipants>>
\* after dm:join the socket is in the rooms it was in before and in the
\* conversation room, which is no change when it was in it already; after
\* dm:leave it is in the rooms it was in before without the conversation room,
\* which is no change when it was not in it
JoinLeaveMembership ==
  \A c \in SocketIds :
    LET l == sockets[c].last
    IN /\ l.event = "dm:join" =>
            /\ sockets[c].rooms = l.before \cup {l.room}
            /\ l.room \in l.before => sockets[c].rooms = l.before
       /\ l.event = "dm:leave" =>
            /\ sockets[c].rooms = l.before \ {l.room}
            /\ l.room \notin l.before => sockets[c].rooms = l.before
\* a dm:join or dm:leave of a socket changes no row, no other socket, no task
\* and emits nothing
JoinLeaveOnly ==
  \A c \in SocketIds :
    (sockets[c].open /\ sockets'[c].open /\ sockets'[c].last # sockets[c].last)
      => /\ UNCHANGED persisted
         /\ UNCHANGED <<emitted, tasks>>
         /\ \A d \in SocketIds \ {c} : sockets'[d] = sockets[d]
\* C13: dm:join and dm:leave are idempotent on room membership and change
\* neither the membership of another room nor any persisted state.
C13_JoinLeaveIdempotent == [] JoinLeaveMembership /\ [][JoinLeaveOnly]_vars
\* one socket joined a conversation room it was already in, the other left a
\* conversation room it was not in
C13_Witness ==
  \E c \in SocketIds, d \in SocketIds :
    /\ sockets[c].last.event = "dm:join" /\ sockets[c].last.room \in sockets[c].last.before
    /\ sockets[d].last.event = "dm:leave" /\ sockets[d].last.room \notin sockets[d].last.before

\* ------------------------------------------------------------------ C14
\* a step that relays a typing event sends it to the sockets that are in the
\* target room at that moment, the sender left out, and changes nothing else
TypingRelay ==
  \A e \in emitted' \ emitted :
    e.event \in {"typing:start", "typing:stop"} =>
      /\ e.to = {c \in SocketIds : /\ sockets[c].open /\ e.room \in sockets[c].rooms
                                  /\ c # e.from}
      /\ e.from \notin e.to
      /\ UNCHANGED persisted
      /\ UNCHANGED <<sockets, tasks>>
\* C14: a typing:start or typing:stop event is forwarded to every other
\* connection that is in the target room and never to the sender, and changes
\* no persisted state and no room membership.
C14_TypingRelay == [][TypingRelay]_vars
\* a typing event was relayed to another socket of a room the sender is in
C14_Witness ==
  \E e \in typingEvents :
    /\ e.to # {} /\ e.from \notin e.to
    /\ sockets[e.from].open /\ e.room \in sockets[e.from].rooms

\* ------------------------------------------------------------------ C15
\* the length of a persisted content
lengthOf(text) == (CHOOSE c \in Contents : c.text = text).length
\* the events the server emits
ServerEvents ==
  {"room:message", "dm:message", "notification:new", "typing:start", "typing:stop"}
\* every handler in flight and every message has a trimmed content of 1 to 2000
\* characters, every message notification is about a persisted message and no
\* other event than the server's five is ever emitted
ContentInLimits ==
  /\ \A t \in TaskIds :
       tasks[t].pc # "idle" =>
         (tasks[t].content.length >= 1 /\ tasks[t].content.length <= 2000)
  /\ \A m \in DOMAIN messages :
       lengthOf(messages[m].content) >= 1 /\ lengthOf(messages[m].content) <= 2000
  /\ \A n \in DOMAIN notifications :
       notifications[n].type \in {"mention", "new_dm"}
         => notifications[n].cause \in DOMAIN messages
  /\ \A e \in emitted :
       /\ e.event \in ServerEvents
       /\ e.event \in {"room:message", "dm:message"} => e.ref \in DOMAIN messages
\* the step that drops an event for its content changes no row, no socket and
\* emits nothing
DroppedForContent ==
  \A t \in TaskIds :
    (tasks'[t] # tasks[t] /\ tasks'[t].dropped.why = "content")
      => /\ tasks'[t].dropped.length = 0 \/ tasks'[t].dropped.length > 2000
         /\ tasks[t].pc = "idle" /\ tasks'[t].pc = "idle"
         /\ UNCHANGED persisted
         /\ UNCHANGED <<emitted, sockets>>
\* C15: a room:message or dm:message whose trimmed content is empty or longer
\* than 2000 characters is dropped with no effect (no Message, no broadcast, no
\* Notification, no error event), so every persisted Message has a trimmed
\* content of 1 to 2000 characters.
C15_InvalidContentDropped == [] ContentInLimits /\ [][DroppedForContent]_vars
\* an event of 2001 characters was dropped and nothing was persisted or emitted
C15_Witness ==
  \E t \in TaskIds :
    /\ tasks[t].dropped.why = "content" /\ tasks[t].dropped.length = 2001
    /\ messages = <<>> /\ notifications = <<>> /\ emitted = {}

\* ------------------------------------------------------------------ C16
\* the user has a row in conversation_participants for the conversation
IsParticipant(conversationId, userId) ==
  \E cp \in conversationParticipants :
    cp.conversationId = conversationId /\ cp.userId = userId
\* every dm handler past the participant check, every conversation message,
\* every touched conversation and every new_dm notification is of a sender who
\* is a participant of the conversation
SenderParticipates ==
  /\ \A t \in TaskIds :
       (tasks[t].event = "dm:message" /\ tasks[t].pc \notin {"idle", "participation"})
         => IsParticipant(tasks[t].conversationId, tasks[t].userId)
  /\ \A m \in DOMAIN messages :
       messages[m].conversationId # 0
         => IsParticipant(messages[m].conversationId, messages[m].senderId)
  /\ \A c \in DOMAIN conversations :
       conversations[c].touched > 0
         => \E m \in DOMAIN messages : messages[m].conversationId = c
  /\ \A n \in DOMAIN notifications :
       notifications[n].type = "new_dm"
         => IsParticipant(notifications[n].conversationId, notifications[n].senderId)
  /\ \A e \in emitted :
       e.event = "dm:message" =>
         /\ e.ref \in DOMAIN messages
         /\ e.room = conversationRoom(messages[e.ref].conversationId)
         /\ IsParticipant(messages[e.ref].conversationId, messages[e.ref].senderId)
\* the step that drops a dm:message of a non-participant changes no row, no
\* socket and emits nothing
DroppedForParticipant ==
  \A t \in TaskIds :
    (tasks'[t] # tasks[t] /\ tasks'[t].dropped.why = "participant")
      => /\ ~ IsParticipant(tasks'[t].dropped.conversationId, tasks'[t].dropped.userId)
         /\ tasks[t].pc = "participation" /\ tasks'[t].pc = "idle"
         /\ UNCHANGED persisted
         /\ UNCHANGED <<emitted, sockets>>
\* C16: a dm:message for a conversation of which the sender is not a
\* participant is dropped with no effect: no Message, no change of the
\* conversation's lastMessageAt, no broadcast, no Notification.
C16_NonParticipantDropped == [] SenderParticipates /\ [][DroppedForParticipant]_vars
\* carol's dm:message for the conversation of alice and bob was dropped
C16_Witness ==
  \E t \in TaskIds :
    /\ tasks[t].dropped.why = "participant"
    /\ tasks[t].dropped.conversationId \in DOMAIN conversations
    /\ conversations[tasks[t].dropped.conversationId].touched = 0
    /\ messages = <<>> /\ notifications = <<>> /\ emitted = {}

\* ------------------------------------------------------------------ C17
\* the @tokens of a persisted content
tokensOf(text) == (CHOOSE c \in Contents : c.text = text).tokens
\* the users whose handle is one of the @tokens of the text, in lower case
ResolvedMentions(text) ==
  {u \in Users : /\ userProfiles[u].exists
                 /\ \E i \in DOMAIN tokensOf(text) :
                      userProfiles[u].handle = toLowerCase(tokensOf(text)[i])}
\* the handler of message m is still running
InFlight(m) == \E t \in TaskIds : tasks[t].pc # "idle" /\ tasks[t].msgId = m
\* the ids of the notifications of a type that message m caused for user u
NotesOfMessage(m, type, u) ==
  {n \in DOMAIN notifications :
     /\ notifications[n].type = type /\ notifications[n].cause = m
     /\ notifications[n].userId = u}
\* C17: the mentions of every persisted room message and of its broadcast are
\* exactly the users of all distinct @handles of the content that resolve, and
\* a finished handler has created one mention notification for each of them
\* other than the sender.
C17_AllMentionsResolved ==
  \A m \in DOMAIN messages :
    messages[m].roomId # NoRoom =>
      /\ {messages[m].mentions[i] : i \in DOMAIN messages[m].mentions}
           = ResolvedMentions(messages[m].content)
      /\ ~ InFlight(m) =>
           \A u \in ResolvedMentions(messages[m].content) \ {messages[m].senderId} :
             Cardinality(NotesOfMessage(m, "mention", u)) = 1
\* a finished room message with two resolvable @handles whose mentions hold
\* the first only, and only that user was notified
C17_Witness ==
  \E m \in DOMAIN messages :
    /\ messages[m].roomId # NoRoom /\ ~ InFlight(m)
    /\ Cardinality(ResolvedMentions(messages[m].content) \ {messages[m].senderId}) = 2
    /\ Len(messages[m].mentions) = 1
    /\ Cardinality({n \in DOMAIN notifications : notifications[n].cause = m}) = 1

\* ------------------------------------------------------------------ C18
\* C18: no mention or new_dm notification has the sender of its message as
\* recipient, and no two notifications of one message have the same recipient.
C18_NeverNotifySender ==
  /\ \A n \in DOMAIN notifications :
       notifications[n].type \in {"mention", "new_dm"}
         => /\ notifications[n].userId # notifications[n].senderId
            /\ notifications[n].cause \in DOMAIN messages
            /\ notifications[n].senderId = messages[notifications[n].cause].senderId
  /\ \A n1 \in DOMAIN notifications, n2 \in DOMAIN notifications :
       ( /\ n1 # n2
         /\ notifications[n1].type \in {"mention", "new_dm"}
         /\ notifications[n2].type \in {"mention", "new_dm"}
         /\ notifications[n1].cause = notifications[n2].cause )
       => notifications[n1].userId # notifications[n2].userId
\* the handler of a room message whose sender mentioned their own handle has
\* finished and notified nobody
C18_Witness ==
  \E m \in DOMAIN messages :
    /\ ~ InFlight(m)
    /\ messages[m].mentions = <<messages[m].senderId>>
    /\ \A n \in DOMAIN notifications : notifications[n].cause # m

\* ------------------------------------------------------------------ C19
\* the step that broadcasts a dm:message sends it to exactly the sockets that
\* are in the room of the message's conversation at that moment, and the
\* message has been persisted before
DmBroadcast ==
  \A e \in emitted' \ emitted :
    e.event = "dm:message" =>
      /\ e.ref \in DOMAIN messages
      /\ e.room = conversationRoom(messages[e.ref].conversationId)
      /\ e.to = {c \in SocketIds :
                   /\ sockets[c].open
                   /\ conversationRoom(messages[e.ref].conversationId) \in sockets[c].rooms}
\* every dm handler past its insert has its message in the table, whoever is
\* in the conversation room
DmPersisted ==
  \A t \in TaskIds :
    (tasks[t].event = "dm:message"
       /\ tasks[t].pc \in {"touch", "participants", "notify", "push"})
      => /\ tasks[t].msgId \in DOMAIN messages
         /\ messages[tasks[t].msgId].conversationId = tasks[t].conversationId
\* C19: an accepted dm:message is broadcast to a connection if and only if the
\* connection is in the conversation's room at the time of the broadcast, and
\* the Message is persisted whether or not any connection is in that room.
C19_DmBroadcastToRoom == [] DmPersisted /\ [][DmBroadcast]_vars
\* a dm:message reached a socket in the room while a connection of the other
\* participant, not in the room, did not get it
C19_Witness ==
  \E e \in emitted :
    /\ e.event = "dm:message" /\ e.to # {}
    /\ \E c \in SocketIds \ e.to :
         /\ sockets[c].open
         /\ sockets[c].userId # messages[e.ref].senderId
         /\ IsParticipant(messages[e.ref].conversationId, sockets[c].userId)
         /\ conversationRoom(messages[e.ref].conversationId) \notin sockets[c].rooms

\* ------------------------------------------------------------------ C20
\* the conversation messages whose handler has updated the conversation
Touched(c) ==
  {m \in DOMAIN messages :
     /\ messages[m].conversationId = c
     /\ ~ \E t \in TaskIds : tasks[t].msgId = m /\ tasks[t].pc = "touch"}
\* C20: every accepted dm:message has persisted one Message with its
\* conversationId and updated the conversation's lastMessageAt once, and when
\* its handler has finished there is exactly one new_dm notification for each
\* other participant, online or not, and none for anyone else.
C20_DmEffects ==
  /\ DmPersisted
  /\ \A c \in DOMAIN conversations :
       /\ conversations[c].touched = Cardinality(Touched(c))
       /\ \A m \in Touched(c) : conversations[c].lastMessageAt >= messages[m].createdAt
  /\ \A m \in DOMAIN messages :
       (messages[m].conversationId # 0 /\ ~ InFlight(m)) =>
         \A u \in Users :
           Cardinality(NotesOfMessage(m, "new_dm", u)) =
             IF IsParticipant(messages[m].conversationId, u) /\ u # messages[m].senderId
             THEN 1 ELSE 0
\* a finished dm:message whose other participant had no connection and was in
\* no room got its notification
C20_Witness ==
  \E m \in DOMAIN messages :
    /\ messages[m].conversationId # 0 /\ ~ InFlight(m)
    /\ conversations[messages[m].conversationId].touched = 1
    /\ \E n \in DOMAIN notifications :
         /\ notifications[n].type = "new_dm" /\ notifications[n].cause = m
         /\ ~ notifications[n].online

\* ------------------------------------------------------------------ C21
\* the room:message or dm:message events that carried message m
BroadcastsOf(m) ==
  {e \in emitted : e.event \in {"room:message", "dm:message"} /\ e.ref = m}
\* two messages of one connection for the same room or conversation
SameSenderAndTarget(m1, m2) ==
  /\ messages[m1].socket = messages[m2].socket
  /\ messages[m1].roomId = messages[m2].roomId
  /\ messages[m1].conversationId = messages[m2].conversationId
\* C21: the handlers of two events of one connection never overlap, and two
\* messages one connection submitted to the same room are persisted and
\* broadcast in the order in which they were submitted.
C21_SubmissionOrder ==
  /\ \A t1 \in TaskIds, t2 \in TaskIds :
       (t1 # t2 /\ tasks[t1].pc # "idle" /\ tasks[t2].pc # "idle")
         => tasks[t1].socket # tasks[t2].socket
  /\ \A m1 \in DOMAIN messages, m2 \in DOMAIN messages :
       (SameSenderAndTarget(m1, m2) /\ messages[m1].seq < messages[m2].seq)
         => /\ m1 < m2
            /\ \A e1 \in BroadcastsOf(m1), e2 \in BroadcastsOf(m2) : e1.nth < e2.nth
\* a connection sent a room message with a mention and then one without: the
\* second was persisted and broadcast to the room before the first
C21_Witness ==
  \E m1 \in DOMAIN messages, m2 \in DOMAIN messages :
    /\ SameSenderAndTarget(m1, m2) /\ messages[m1].roomId # NoRoom
    /\ messages[m1].seq < messages[m2].seq
    /\ tokensOf(messages[m1].content) # <<>> /\ tokensOf(messages[m2].content) = <<>>
    /\ m2 < m1
    /\ \E e1 \in BroadcastsOf(m1), e2 \in BroadcastsOf(m2) :
         e2.nth < e1.nth /\ e1.to # {} /\ e2.to = e1.to

\* the users of the participant rows of conversation c
usersOf(c) == {cp.userId : cp \in participantsOf(c)}

\* C22: there is at most one conversation per unordered pair of users, whatever
\* the interleaving of the get-or-create requests, and a request that finds the
\* conversation of its pair answers with that id and isNew false and inserts no row
C22_OnePerPair ==
  /\ \A c1, c2 \in DOMAIN conversations :
       (c1 # c2 /\ Cardinality(usersOf(c1)) = 2) => usersOf(c1) # usersOf(c2)
  /\ \A q \in PostIds :
       (posts[q].pc = "done" /\ posts[q].status = 200 /\ ~posts[q].isNew)
         => /\ usersOf(posts[q].conversationId) = {posts[q].userId, posts[q].otherUserId}
            /\ posts[q].convo = 0
\* alice asked for carol and carol for alice at the same time: both requests
\* answered isNew true, with two different conversations of the same pair
C22_Witness ==
  /\ posts[1].pc = "done" /\ posts[2].pc = "done"
  /\ posts[1].userId = 1 /\ posts[1].otherUserId = 3
  /\ posts[2].userId = 3 /\ posts[2].otherUserId = 1
  /\ posts[1].isNew /\ posts[2].isNew
  /\ posts[1].conversationId # posts[2].conversationId
  /\ usersOf(posts[1].conversationId) = {1, 3}
  /\ usersOf(posts[2].conversationId) = {1, 3}

\* C23: every conversation has exactly 2 distinct participants once no request
\* is between its insert and the insert of its participants; a request for
\* oneself is rejected without a row
C23_TwoParticipants ==
  /\ \A c \in DOMAIN conversations :
       (\A q \in PostIds : ~(posts[q].pc = "participants" /\ posts[q].convo = c))
         => Cardinality(usersOf(c)) = 2
  /\ \A q \in PostIds :
       (posts[q].pc = "done" /\ posts[q].route = "POST /conversations"
          /\ posts[q].userId = posts[q].otherUserId)
         => posts[q].status = 400 /\ posts[q].convo = 0
\* the request for a user that is in no row of users has ended at the insert of
\* the participants and its conversation is left without any
C23_Witness ==
  \E q \in PostIds :
    /\ posts[q].pc = "failed" /\ posts[q].otherUserId = NoSuchUser
    /\ posts[q].convo \in DOMAIN conversations
    /\ participantsOf(posts[q].convo) = {}
    /\ \E q2 \in PostIds : posts[q2].pc = "done" /\ posts[q2].status = 400
                            /\ posts[q2].userId = posts[q2].otherUserId

\* one step of the beacon store and the create requests as C24 states it
LocalityStep ==
  /\ \A i \in DOMAIN beacons :
       /\ i \in DOMAIN beacons'
       /\ beacons'[i].timezone = beacons[i].timezone
       /\ beacons'[i].userId = beacons[i].userId
  /\ \A q \in PostIds :
       /\ (posts[q].pc = "profile" /\ posts'[q].pc # "profile")
            => posts'[q].timezone = userProfiles[posts[q].userId].timezone
       /\ (posts[q].route = "POST /beacons" /\ posts[q].pc \in {"analyze", "insert"})
            => posts'[q].timezone = posts[q].timezone
  /\ \A i \in DOMAIN beacons' \ DOMAIN beacons :
       \E q \in PostIds :
         /\ posts[q].pc = "insert" /\ posts'[q].pc = "done" /\ posts'[q].beaconId = i
         /\ beacons'[i].userId = posts[q].userId
         /\ beacons'[i].timezone = posts[q].timezone

DeactivationStep ==
  /\ \A i \in DOMAIN beacons :
       /\ i \in DOMAIN beacons'
       /\ ~beacons[i].isActive => ~beacons'[i].isActive
       /\ (beacons[i].isActive /\ ~beacons'[i].isActive)
            => /\ reply'.status = 200 /\ reply'.owner
               /\ requests' = requests + 1
               /\ \A j \in DOMAIN beacons \ {i} : beacons'[j] = beacons[j]
  /\ (reply' # reply /\ ~reply'.owner) => (reply'.status = 404 /\ beacons' = beacons)
  /\ (reply' # reply /\ reply'.owner) => reply'.status = 200

\* C25: a beacon becomes inactive only in a DELETE of its owner; the DELETE of
\* another user answers 404 and changes no row; rows are never removed and an
\* inactive beacon never becomes active again
C25_DeactivationTerminal == [][DeactivationStep]_vars
\* alice deactivated her beacon 1; since then she posted a new beacon and the
\* match job ran, and beacon 1 is still there and still inactive
C25_Witness ==
  /\ reply.status = 200 /\ reply.owner
  /\ ~beacons[1].isActive /\ beacons[1].userId = 1
  /\ \E q \in PostIds : /\ posts[q].pc = "done" /\ posts[q].status = 201
                         /\ posts[q].userId = 1 /\ posts[q].beaconId = Len(beacons)
  /\ runs[1].pc = "done"

\* a step in which a run ends in its catch at the cron callback leaves every
\* other run and the store as they are
CaughtStep ==
  \A r \in Runs :
    (runs[r].pc # "failed" /\ runs'[r].pc = "failed")
      => /\ \A q \in Runs \ {r} : runs'[q] = runs[q]
         /\ UNCHANGED <<beacons, beaconMatches, notifications, now>>
\* a tick that has not fired yet can start its run whatever happened to the others
NextTickRuns ==
  \A r, q \in Runs :
    (runs[r].pc = "failed" /\ runs[q].pc = "idle") => ENABLED RunLoad(q)

\* C26: a failure that leaves runBeaconMatching ends only the run of that tick:
\* the runs of the other ticks are not ended by it and a later tick still starts
\* and carries out its run
C26_CaughtAtScheduler == [][CaughtStep]_vars /\ []NextTickRuns
\* the run of one tick failed at its load; the run of a later tick loaded the
\* beacons, found a match and finished
C26_Witness ==
  \E r, q \in Runs :
    /\ runs[r].pc = "failed"
    /\ runs[q].pc = "done"
    /\ runs[q].t0 > runs[r].t0
    /\ runs[q].totalMatches >= 1
    /\ \E e \in beaconMatches : e.run = q

\* the events of a conversation that a step emits reach only sockets of users
\* who are participants of the conversation
ParticipantsOnlyStep ==
  \A e \in emitted' \ emitted :
    (e.event \in {"dm:message", "typing:start", "typing:stop"}
       /\ e.room.kind = "conversation")
      => \A c \in e.to : IsParticipant(e.room.id, sockets[c].userId)

\* C27: a dm:message or typing event of a conversation is delivered only to
\* connections of the two participants, whatever dm:join events were sent
C27_ParticipantsOnly == [][ParticipantsOnlyStep]_vars
\* carol is no participant of conversation 1; her connection sent dm:join for
\* it and the dm:message a handler has just emitted went to her connection
C27_Witness ==
  \E t \in TaskIds, e \in emitted, c \in SocketIds :
    /\ tasks[t].pc = "participants" /\ tasks[t].conversationId = 1
    /\ e.event = "dm:message" /\ e.ref = tasks[t].msgId
    /\ e.room = conversationRoom(1)
    /\ c \in e.to
    /\ sockets[c].open /\ sockets[c].userId = 3
    /\ ~IsParticipant(1, 3)
    /\ sockets[c].last.event = "dm:join"
    /\ conversationRoom(1) \in sockets[c].rooms
    /\ sockets[tasks[t].socket].open
    /\ sockets[tasks[t].socket].userId = tasks[t].userId

\* C28: every event emitted to a room user:<id> is a notification:new
C28_UserRoomOnlyNotifications ==
  \A e \in emitted : e.room.kind = "user" => e.event = "notification:new"
\* a client sent typing:start with roomId "user:2" and the event was relayed
\* to bob's connection, which is in that room
C28_Witness ==
  \E e \in emitted, c \in SocketIds :
    /\ e.event \in {"typing:start", "typing:stop"}
    /\ e.room = userRoom(2)
    /\ c \in e.to /\ c # e.from
    /\ sockets[c].open /\ sockets[c].userId = 2
    /\ sockets[e.from].open /\ sockets[e.from].userId # 2

\* the room a persisted message belongs to
roomOfMessage(m) ==
  IF messages[m].conversationId # 0 THEN conversationRoom(messages[m].conversationId)
  ELSE messages[m].roomId

\* C29: persist, then broadcast, then notify: every broadcast room:message or
\* dm:message carries the id of a persisted message of that room, every handler
\* that is at its notifications has persisted and broadcast its message, and
\* every mention or new_dm notification is of a persisted message whose
\* broadcast was emitted before the live event of the notification
C29_PersistBroadcastNotify ==
  /\ \A e \in emitted :
       e.event \in {"room:message", "dm:message"}
         => (e.ref \in DOMAIN messages /\ roomOfMessage(e.ref) = e.room)
  /\ \A t \in TaskIds :
       tasks[t].pc \in {"notify", "push"}
         => (tasks[t].msgId \in DOMAIN messages /\ BroadcastsOf(tasks[t].msgId) # {})
  /\ \A n \in DOMAIN notifications :
       notifications[n].type \in {"mention", "new_dm"}
         => /\ notifications[n].cause \in DOMAIN messages
            /\ \E e \in BroadcastsOf(notifications[n].cause) :
                 \A l \in emitted :
                   (l.event = "notification:new" /\ l.ref = n) => e.nth < l.nth
\* a message was persisted and broadcast to its room and the notification of
\* its recipient was created and emitted after the broadcast
C29_Witness ==
  \E n \in DOMAIN notifications, e \in emitted, l \in emitted :
    /\ notifications[n].type = "new_dm"
    /\ notifications[n].cause \in DOMAIN messages
    /\ e.event = "dm:message" /\ e.ref = notifications[n].cause /\ e.to # {}
    /\ l.event = "notification:new" /\ l.ref = n /\ l.to # {}
    /\ e.nth < l.nth

\* a step in which the insert of a handler's message fails changes nothing but
\* that handler: no row, no event, the connections and the other handlers stay
PersistFailureStep ==
  \A t \in TaskIds :
    (tasks[t].pc = "persist" /\ tasks'[t].pc = "idle"
       /\ tasks'[t].dropped.why = "persist")
      => /\ UNCHANGED <<messages, emitted, notifications, conversations>>
         /\ sockets' = sockets
         /\ \A x \in TaskIds \ {t} : tasks'[x] = tasks[x]

\* C30: a failed insert of a message affects only its own event: nothing is
\* persisted, broadcast or notified for it and the connections and the other
\* events in progress go on as before
C30_FailureIsLocal == [][PersistFailureStep]_vars
\* the insert of one handler was rejected while the handler of another event
\* was in progress: that handler ended with the process and every connection
\* is closed
C30_Witness ==
  \E t, x \in TaskIds :
    /\ t # x
    /\ tasks[t].pc = "idle" /\ tasks[t].dropped.why = "persist"
    /\ tasks[x].pc = "idle" /\ tasks[x].dropped.why = "exit"
    /\ \A c \in SocketIds : ~sockets[c].open

\* a step of a handler or a run that is at its push goes on to the next
\* recipient or to the update of lastMatchedAt, takes back no row and no
\* event, and a submission that was made is not made again
PushStep ==
  /\ \A t \in TaskIds :
       (tasks[t].pc = "push" /\ tasks'[t] # tasks[t])
         => /\ tasks'[t] = NextRecipient(tasks[t], tasks[t].i + 1)
            /\ tasks'[t].dropped.why # "push"
            /\ emitted' = emitted
            /\ Len(notifications') = Len(notifications)
  /\ \A r \in Runs :
       (runs[r].pc = "push" /\ runs'[r] # runs[r])
         => /\ runs'[r] = [runs[r] EXCEPT !.pc = "update"]
            /\ Len(notifications') = Len(notifications)
  /\ \A n \in DOMAIN notifications :
       notifications[n].push # "none" => notifications'[n].push = notifications[n].push
\* the row and the live event of a recipient are there whatever became of the
\* push, and a run that has finished has updated lastMatchedAt of the beacons
\* of every pair it notified
PushedAfterRow ==
  /\ \A n \in DOMAIN notifications :
       (notifications[n].push # "none" /\ notifications[n].type \in {"mention", "new_dm"})
         => \E l \in emitted : l.event = "notification:new" /\ l.ref = n
  /\ \A r \in Runs, n \in DOMAIN notifications :
       (runs[r].pc = "done" /\ notifications[n].run = r)
         => /\ notifications[n].push # "none"
            /\ beacons[notifications[n].beaconId].lastMatchedAt >= runs[r].t0
  /\ \A r \in Runs : runs[r].pc # "failed"

\* C31: a failed push is not surfaced and not retried: the notification row
\* and the live event of the recipient stay, the handler goes on to the
\* remaining recipients, and the match job goes on to update lastMatchedAt
\* and to the remaining pairs
C31_PushFailureContained == [][PushStep]_vars /\ []PushedAfterRow
\* the push service is down: the run has matched two pairs, all four pushes
\* failed, the rows are there and lastMatchedAt of the three beacons is set;
\* the push for bob's new_dm failed too, its row and live event are there
C31_Witness ==
  /\ transport = "down"
  /\ runs[1].pc = "done" /\ runs[1].totalMatches >= 2
  /\ Cardinality({n \in DOMAIN notifications :
         notifications[n].run = 1 /\ notifications[n].push = "failed"}) >= 4
  /\ \A i \in BeaconIds : beacons[i].lastMatchedAt # NoTime
  /\ \E n \in DOMAIN notifications, l \in emitted :
       /\ notifications[n].type = "new_dm" /\ notifications[n].push = "failed"
       /\ l.event = "notification:new" /\ l.ref = n /\ l.to # {}
  /\ \A t \in TaskIds : tasks[t].pc = "idle" /\ tasks[t].dropped = NoDrop

\* the rows a step adds to beacon_matches and to notifications are about
\* beacons that are active in the table at that step
ActiveOnlyStep ==
  /\ \A e \in beaconMatches' \ beaconMatches :
       beacons[e.beaconId].isActive /\ beacons[e.matchedBeaconId].isActive
  /\ \A n \in DOMAIN notifications' \ DOMAIN notifications :
       notifications'[n].type = "beacon_match"
         => /\ beacons[notifications'[n].beaconId].isActive
            /\ beacons[notifications'[n].matchedBeaconId].isActive

\* C32: no row of beacon_matches and no beacon_match notification is created
\* for a beacon after its owner has deactivated it, also when a run is in
\* progress at the time of the deactivation
C32_NoMatchAfterDeactivation == [][ActiveOnlyStep]_vars
\* the owner deactivated a beacon after a run had loaded it as active; the
\* run then inserted the rows of a pair with it and notified both owners
C32_Witness ==
  \E r \in Runs, i \in BeaconIds, e \in beaconMatches, n \in DOMAIN notifications :
    /\ reply.status = 200 /\ reply.owner
    /\ ~beacons[i].isActive
    /\ i \in DOMAIN runs[r].store /\ runs[r].store[i].isActive
    /\ e.run = r /\ e.beaconId = i /\ ~e.live
    /\ notifications[n].run = r /\ notifications[n].beaconId = i
    /\ notifications[n].userId = beacons[i].userId

\* C33: every row of beacon_matches carries a score of at least 0.65, and for
\* an answer with a score below 0.65 the run creates no row of beacon_matches
\* and no notification
C33_ScoreAtLeastThreshold ==
  /\ \A e \in beaconMatches : e.similarityScore >= toFixed3(Threshold)
  /\ \A r \in Runs : \A k \in DOMAIN runs[r].answers :
       LET ans == runs[r].answers[k]
       IN ans.result.score < Threshold
            => /\ EdgesOfRun(r, ans.a, ans.b) = {}
               /\ \A n \in DOMAIN notifications :
                    ~(notifications[n].run = r
                      /\ {notifications[n].beaconId, notifications[n].matchedBeaconId}
                           = {ans.a, ans.b})
\* the comparator answered score 0.3 with isMatch true: both rows of the pair
\* are stored with the score 0.300 and both owners are notified
C33_Witness ==
  \E k \in DOMAIN runs[1].answers :
    LET ans == runs[1].answers[k]
    IN /\ ans.result.score = 3000 /\ ans.result.isMatch
       /\ Cardinality(EdgesOfRun(1, ans.a, ans.b)) = 2
       /\ \A e \in EdgesOfRun(1, ans.a, ans.b) : e.similarityScore = 300
       /\ Cardinality({n \in DOMAIN notifications :
             /\ notifications[n].run = 1
             /\ {notifications[n].beaconId, notifications[n].matchedBeaconId}
                  = {ans.a, ans.b}}) = 2
       /\ runs[1].pc = "done"

\* the create requests that have been answered 201
created == {q \in PostIds : posts[q].route = "POST /beacons" /\ posts[q].pc = "done"
                             /\ posts[q].status = 201}
\* only a request whose analysis said isAppropriate true gets to the insert; a
\* failed call is answered 503 and every other answer 422, without a row
ModeratedFirst ==
  /\ \A q \in PostIds :
       posts[q].route = "POST /beacons"
         => /\ (posts[q].pc = "insert" \/ q \in created) => posts[q].response = "appropriate"
            /\ (posts[q].pc = "done" /\ posts[q].response = "fails")
                 => (posts[q].status = 503 /\ posts[q].beaconId = 0)
            /\ (posts[q].pc = "done" /\ posts[q].response \in {"inappropriate", "unparsable"})
                 => (posts[q].status = 422 /\ posts[q].beaconId = 0)
            /\ q \in created => posts[q].beaconId \in BeaconIds
  /\ Len(beacons) = Len(InitialBeacons) + Cardinality(created)
  /\ \A q1, q2 \in created : q1 # q2 => posts[q1].beaconId # posts[q2].beaconId
  /\ \A i \in BeaconIds : beacons[i].isSanitized
\* a row that a step adds to beacons is active, moderated and expires 30 days later
CreatedStep ==
  \A i \in DOMAIN beacons' \ DOMAIN beacons :
    /\ beacons'[i].isActive /\ beacons'[i].isSanitized
    /\ beacons'[i].expiresAt = now + ExpiryTicks

\* C34: a beacon row is created only for a submission whose analysis passed:
\* a failed call, an answer that says inappropriate and an answer that cannot
\* be parsed all end in an error without a row; every created row is active,
\* moderated and expires 30 days after its creation
C34_ModeratedBeforeCreated == []ModeratedFirst /\ [][CreatedStep]_vars
\* one submission was answered 422 because the analysis could not be parsed
\* and left no row; another passed and its beacon is in the table
C34_Witness ==
  \E q1, q2 \in PostIds :
    /\ posts[q1].pc = "done" /\ posts[q1].response = "unparsable"
    /\ posts[q1].status = 422 /\ posts[q1].beaconId = 0
    /\ q2 \in created /\ posts[q2].response = "appropriate"
    /\ Len(beacons) = Len(InitialBeacons) + 1
    /\ beacons[posts[q2].beaconId].isSanitized
    /\ beacons[posts[q2].beaconId].expiresAt = now + ExpiryTicks

\* C35: no user ever has more active beacons than the limit of their plan,
\* whatever the interleaving of create and deactivate requests
C35_Quota == \A u \in Users : activeCount(u) <= beaconLimit(u)
\* two create requests of a free user both counted before either inserted:
\* both were answered 201 and the user has two active beacons
C35_Witness ==
  \E u \in Users, q1, q2 \in created :
    /\ q1 # q2
    /\ posts[q1].userId = u /\ posts[q2].userId = u
    /\ ~userProfiles[u].isPremium /\ beaconLimit(u) = FREE_BEACON_LIMIT
    /\ beacons[posts[q1].beaconId].isActive /\ beacons[posts[q2].beaconId].isActive
    /\ activeCount(u) = 2

\* the beacon_match notifications about the unordered pair x, y
NotesAbout(x, y) ==
  { n \in DOMAIN notifications :
      /\ notifications[n].type = "beacon_match"
      /\ {notifications[n].beaconId, notifications[n].matchedBeaconId} = {x, y} }
\* a run has inserted for the pair x, y and has not yet notified
Notifying(x, y) ==
  \E r \in Runs :
    /\ runs[r].pc = "notify"
    /\ {runs[r].todo[runs[r].k].a.id, runs[r].todo[runs[r].k].b.id} = {x, y}

\* C36: for every pair of beacons there are as many beacon_match notifications
\* as rows of beacon_matches, once no run is between its insert and its
\* notifications for the pair
C36_NotesEqualEdges ==
  \A x, y \in BeaconIds :
    (x < y /\ ~Notifying(x, y))
      => Cardinality(NotesAbout(x, y)) = Cardinality(EdgesBetween(x, y))
\* two runs overlapped: both asked the comparator about the same pair before
\* either had inserted; the second insert met the unique constraint and stored
\* nothing, and both runs notified both owners: four notifications, two rows
C36_Witness ==
  \E r, q \in Runs, x, y \in BeaconIds :
    /\ r # q /\ x < y
    /\ Finished(r) /\ Finished(q)
    /\ q \notin runs[r].after /\ r \notin runs[q].after
    /\ Cardinality(EdgesOfRun(q, x, y)) = 2
    /\ EdgesOfRun(r, x, y) = {}
    /\ Cardinality(EdgesBetween(x, y)) = 2
    /\ Cardinality(NotesAbout(x, y)) = 4
    /\ \E n \in NotesAbout(x, y) : notifications[n].run = r

\* the timezone rooms a socket is in
localityRooms(c) == {room \in sockets[c].rooms : room.kind = "timezone"}
\* an open connection is in exactly the timezone room of the timezone it got
\* at connect
OneLocalityRoom ==
  \A c \in SocketIds :
    sockets[c].open => localityRooms(c) = {timezoneRoom(sockets[c].timezone)}
\* a connection keeps its timezone from step to step; a room:message handler
\* takes the timezone of its connection; the message is stored with that room
\* and broadcast to it, to connections of that timezone only
LocalityKeptStep ==
  /\ \A c \in SocketIds :
       (sockets[c].open /\ sockets'[c].open)
         => sockets'[c].timezone = sockets[c].timezone
  /\ \A t \in TaskIds :
       (tasks[t].pc = "idle" /\ tasks'[t].pc # "idle" /\ tasks'[t].event = "room:message")
         => tasks'[t].timezone = sockets[tasks'[t].socket].timezone
  /\ \A e \in emitted' \ emitted :
       e.event = "room:message"
         => /\ \E t \in TaskIds : /\ tasks[t].pc = "persist"
                                  /\ e.room = timezoneRoom(tasks[t].timezone)
            /\ e.ref \in DOMAIN messages' /\ messages'[e.ref].roomId = e.room
            /\ \A c \in e.to : sockets[c].timezone = e.room.name

\* C37: a connection is in exactly one timezone room, the one of the timezone
\* fixed at connect, whatever dm:join, dm:leave, typing and message events and
\* profile changes follow; a room:message is stored with and broadcast to the
\* timezone room of its sender's connection and reaches no connection of
\* another timezone
C37_OneLocalityRoom == []OneLocalityRoom /\ [][LocalityKeptStep]_vars
\* alice connected in "UTC" and then moved her profile to New York; her
\* connection sent dm:join and dm:leave; her room:message was stored with and
\* broadcast to timezone:UTC and carol's connection, in New York, is not
\* among the receivers
C37_Witness ==
  \E e \in emitted :
    /\ e.event = "room:message" /\ e.room = timezoneRoom("UTC")
    /\ messages[e.ref].senderId = 1 /\ messages[e.ref].roomId = timezoneRoom("UTC")
    /\ userProfiles[1].timezone = "America/New_York"
    /\ sockets[1].open /\ sockets[1].timezone = "UTC"
    /\ sockets[1].last.event = "dm:leave"
    /\ 1 \in e.to
    /\ sockets[2].open /\ sockets[2].userId = 3
    /\ sockets[2].timezone = "America/New_York"
    /\ 2 \notin e.to
    /\ conversationRoom(1) \in sockets[2].rooms
====
